---- MODULE Spec2Model ----
(***************************************************************************)
(* A model of pyticc: the register bit-field codec (pyticc/utils.py), the  *)
(* byte/burst/strobe framing over the SPI bus (pyticc/base.py, CCBase) and *)
(* the CC1101 register and packet operations (pyticc/cc1101.py).           *)
(*                                                                         *)
(* Python values are modelled as follows.  An int is an Int.  A str of     *)
(* binary digits and the list(bin(x)[2:]) lists are sequences of 0/1,      *)
(* most significant digit first.  A call's outcome is a record             *)
(* [err, val]: err = "none" and val the returned value, or err the name of *)
(* the exception that left the call and val = NoValue.                     *)
(***************************************************************************)
EXTENDS Integers, Sequences, FiniteSets, TLC

VARIABLES
    pc,         \* position of the call in progress: "idle", a loop label, "done"
    op,         \* the operation called
    args,       \* its arguments
    ret,        \* its outcome [err, val]
    bus,        \* the spi.xfer request buffers of this call, in order
    regs,       \* the chip's configuration registers, by address
    pre,        \* regs as they were when the call started
    marcstate,  \* send_data's local variable marcstate
    payload,    \* send_data's local variable payload
    rx_data,    \* recv_data's local variable data
    prev        \* the outcome of the call before the one in progress

vars == <<pc, op, args, ret, bus, regs, pre, marcstate, payload, rx_data, prev>>

NoValue == -1

Ok(v) == [err |-> "none", val |-> v]

Raise(e) == [err |-> e, val |-> NoValue]

(***************************************************************************)
(* Python integer and string primitives used by the code.                  *)
(***************************************************************************)
Pow2(n) == 2^n

\* a >> n; Python raises ValueError("negative shift count") when n < 0, so
\* callers test n first.
RShift(a, n) == a \div Pow2(n)

RECURSIVE BitAnd(_, _)
BitAnd(a, b) ==
    IF a = 0 \/ b = 0 THEN 0
    ELSE (a % 2) * (b % 2) + 2 * BitAnd(a \div 2, b \div 2)

RECURSIVE BitOr(_, _)
BitOr(a, b) ==
    IF a = 0 THEN b
    ELSE IF b = 0 THEN a
    ELSE (IF a % 2 = 1 \/ b % 2 = 1 THEN 1 ELSE 0) + 2 * BitOr(a \div 2, b \div 2)

\* bin(n)[2:] for n >= 0: the binary digits of n, no leading zero, "0" for 0.
RECURSIVE Bin(_)
Bin(n) == IF n < 2 THEN <<n>> ELSE Append(Bin(n \div 2), n % 2)

\* s.zfill(w): s left-padded with zeros to w digits; s itself when longer.
RECURSIVE zfill(_, _)
zfill(s, w) == IF Len(s) >= w THEN s ELSE zfill(<<0>> \o s, w)

\* int(s, 2) for a non-empty string of binary digits.
RECURSIVE Int2(_)
Int2(s) ==
    IF Len(s) = 0 THEN 0
    ELSE 2 * Int2(SubSeq(s, 1, Len(s) - 1)) + s[Len(s)]

(***************************************************************************)
(* pyticc/utils.py                                                         *)
(***************************************************************************)
\* A variant of byte_bit_value whose mask forgets the field's start index.
byte_bit_value_wide_mask(byte, schema) ==
    LET index == schema[1]
        bits  == schema[2]
    IN  IF index < 0 \/ index > 7 THEN Raise("ValueError")
        ELSE IF bits < 1 \/ bits > 8 THEN Raise("ValueError")
        ELSE IF Len(Bin(byte)) > 8 THEN Raise("ValueError")
        ELSE IF index = 0 /\ bits = 8 THEN Ok(byte)
        ELSE LET shift == 8 - (index + bits)
             IN  IF shift < 0 THEN Raise("ValueError")
                 ELSE Ok(BitAnd(RShift(byte, shift), RShift(255, shift)))

byte_bit_value(byte, schema) ==
    LET index == schema[1]
        bits  == schema[2]
    IN  IF index < 0 \/ index > 7 THEN Raise("ValueError")
        ELSE IF bits < 1 \/ bits > 8 THEN Raise("ValueError")
        ELSE IF Len(Bin(byte)) > 8 THEN Raise("ValueError")
        ELSE IF index = 0 /\ bits = 8 THEN Ok(byte)
        ELSE LET shift == 8 - (index + bits)
                 mask  == RShift(255, shift + index)
             IN  \* byte >> shift raises "negative shift count" when shift < 0
                 IF shift < 0 THEN Raise("ValueError")
                 ELSE Ok(BitAnd(RShift(byte, shift), mask))

\* A value argument is an int, [kind |-> "int", n |-> ...], or a str of binary
\* digits, [kind |-> "str", s |-> ...].
IntVal(n) == [kind |-> "int", n |-> n, s |-> <<>>]

StrVal(s) == [kind |-> "str", n |-> 0, s |-> s]

\* orig_bits after "for i in range(0, bits): orig_bits[index + i] = value_bits[i]"
SpliceBits(orig_bits, value_bits, index, bits) ==
    [p \in 1..Len(orig_bits) |->
        IF p - 1 >= index /\ p - 1 < index + bits
        THEN value_bits[p - index]
        ELSE orig_bits[p]]

\* A variant of bit_into_byte that counts the field's index from the least
\* significant bit, as the chip's data sheet does.
bit_into_byte_lsb_index(byte, schema, value) ==
    LET index == schema[1]
        bits  == schema[2]
        v     == IF value.kind = "str" THEN Int2(value.s) ELSE value.n
    IN  IF value.kind = "str" /\ Len(value.s) = 0 THEN Raise("ValueError")
        ELSE IF index < 0 \/ index > 7 THEN Raise("ValueError")
        ELSE IF bits < 1 \/ bits > 8 THEN Raise("ValueError")
        ELSE IF Len(Bin(byte)) > 8 \/ Len(Bin(v)) > 8 THEN Raise("ValueError")
        ELSE IF index + bits > 8 THEN Raise("IndexError")
        ELSE Ok(Int2(SpliceBits(zfill(Bin(byte), 8), zfill(Bin(v), bits),
                                8 - (index + bits), bits)))

\* A variant of bit_into_byte that pads the value to the byte's width instead
\* of the field's.
bit_into_byte_zfill8(byte, schema, value) ==
    LET index == schema[1]
        bits  == schema[2]
        v     == IF value.kind = "str" THEN Int2(value.s) ELSE value.n
    IN  IF value.kind = "str" /\ Len(value.s) = 0 THEN Raise("ValueError")
        ELSE IF index < 0 \/ index > 7 THEN Raise("ValueError")
        ELSE IF bits < 1 \/ bits > 8 THEN Raise("ValueError")
        ELSE IF Len(Bin(byte)) > 8 \/ Len(Bin(v)) > 8 THEN Raise("ValueError")
        ELSE IF index + bits > 8 THEN Raise("IndexError")
        ELSE Ok(Int2(SpliceBits(zfill(Bin(byte), 8), zfill(Bin(v), 8), index, bits)))

bit_into_byte(byte, schema, value) ==
    LET index == schema[1]
        bits  == schema[2]
        \* if type(value) is str: value = int(value, 2)
        v     == IF value.kind = "str" THEN Int2(value.s) ELSE value.n
    IN  \* int("", 2) raises ValueError
        IF value.kind = "str" /\ Len(value.s) = 0 THEN Raise("ValueError")
        ELSE IF index < 0 \/ index > 7 THEN Raise("ValueError")
        ELSE IF bits < 1 \/ bits > 8 THEN Raise("ValueError")
        ELSE IF Len(Bin(byte)) > 8 \/ Len(Bin(v)) > 8 THEN Raise("ValueError")
        ELSE LET orig_bits  == zfill(Bin(byte), 8)
                 value_bits == zfill(Bin(v), bits)
             IN  \* orig_bits[index + i] = ... raises IndexError past the
                 \* eighth element
                 IF index + bits > 8 THEN Raise("IndexError")
                 ELSE Ok(Int2(SpliceBits(orig_bits, value_bits, index, bits)))

(***************************************************************************)
(* The codec on its own: Init draws a call of byte_bit_value or            *)
(* bit_into_byte, or the composition of the two on one field, and the      *)
(* action carries it out.                                                  *)
(***************************************************************************)
MaxByte == 255

\* Schemas offered to byte_bit_value: index in -1..MaxSchema-1, bits in
\* 0..MaxSchema, so every rejected shape occurs beside the 36 accepted ones.
MaxSchema == 9

\* A value offered to bit_into_byte for a field of w bits has at most
\* w + MaxExtra binary digits (and never more than a byte's eight).
MaxExtra == 1

Bytes == 0..MaxByte

\* bit_into_byte is called on every byte with every accepted field and int
\* value, and on these bytes with every field shape and every int and str
\* value; the composition with byte_bit_value is called on every byte.
InsertBytes == {0, 255, 9, 5, 165, 90, 60, 195}

ExtractSchemas == {<<i, b>> : i \in (0 - 1)..(MaxSchema - 1), b \in 0..MaxSchema}

ByteSchemas == {<<i, b>> : i \in 0..7, b \in 1..8}

ValidSchemas == {s \in ByteSchemas : s[1] + s[2] <= 8}

Min(a, b) == IF a < b THEN a ELSE b

BitStrings(n) == [1..n -> {0, 1}]

IntValues(bits) == {IntVal(n) : n \in 0..Min(Pow2(bits + MaxExtra) - 1, MaxByte)}

StrValues(bits) ==
    UNION {{StrVal(s) : s \in BitStrings(n)} : n \in 1..Min(bits + MaxExtra, 8)}

NoArg == IntVal(0)

CodecRest ==
    /\ bus = <<>>
    /\ regs = <<>>
    /\ pre = <<>>
    /\ marcstate = NoValue
    /\ payload = <<>>
    /\ rx_data = <<>>
    /\ prev = Raise("pending")

CodecInit ==
    /\ pc = "idle"
    /\ ret = Raise("pending")
    /\ CodecRest
    /\ \/ /\ op = "byte_bit_value"
          /\ args \in {[byte |-> b, schema |-> s, value |-> NoArg] :
                          b \in Bytes, s \in ExtractSchemas}
       \/ /\ op = "bit_into_byte"
          /\ \/ \E s \in ValidSchemas :
                   args \in {[byte |-> b, schema |-> s, value |-> v] :
                                b \in Bytes, v \in IntValues(s[2])}
             \/ \E s \in ByteSchemas :
                   args \in {[byte |-> b, schema |-> s, value |-> v] :
                                b \in InsertBytes,
                                v \in IntValues(s[2]) \cup StrValues(s[2])}
       \/ /\ op = "round_trip"
          /\ args \in {[byte |-> b, schema |-> s, value |-> NoArg] :
                          b \in Bytes, s \in ByteSchemas}

CodecFrame == UNCHANGED <<op, args, bus, regs, pre, marcstate, payload, rx_data, prev>>

ByteBitValue ==
    /\ pc = "idle"
    /\ op = "byte_bit_value"
    /\ ret' = byte_bit_value(args.byte, args.schema)
    /\ pc' = "done"
    /\ CodecFrame

BitIntoByte ==
    /\ pc = "idle"
    /\ op = "bit_into_byte"
    /\ ret' = bit_into_byte(args.byte, args.schema, args.value)
    /\ pc' = "done"
    /\ CodecFrame

\* bit_into_byte(byte, schema, byte_bit_value(byte, schema))
RoundTrip ==
    /\ pc = "idle"
    /\ op = "round_trip"
    /\ LET got == byte_bit_value(args.byte, args.schema)
       IN  ret' = IF got.err # "none" THEN got
                  ELSE bit_into_byte(args.byte, args.schema, IntVal(got.val))
    /\ pc' = "done"
    /\ CodecFrame

CodecNext == ByteBitValue \/ BitIntoByte \/ RoundTrip

SpecCodec == CodecInit /\ [][CodecNext]_vars

(***************************************************************************)
(* Properties of the codec.  They are stated in arithmetic on the byte,    *)
(* not through the digit lists the code works on.                          *)
(***************************************************************************)
Shift(schema) == 8 - (schema[1] + schema[2])

\* The field's value, right-aligned.
FieldOf(b, schema) == (b \div Pow2(Shift(schema))) % Pow2(schema[2])

\* The byte with the field's bits cleared.
OutsideOf(b, schema) == b - FieldOf(b, schema) * Pow2(Shift(schema))

\* The number a value argument denotes.
NumOf(value) == IF value.kind = "str" THEN Int2(value.s) ELSE value.n

Fits(value, bits) ==
    /\ NumOf(value) < Pow2(bits)
    /\ value.kind = "str" => Len(value.s) <= bits

InsertDone == op = "bit_into_byte" /\ pc = "done"

\* C1: bit_into_byte replaces exactly the target bit range: for every byte,
\* every field with index + bits <= 8 and every value that fits in the field
\* (an int, or a bit string of at most bits characters), the result's field
\* holds the value and every bit outside the field is the original byte's.
C1_InsertReplacesExactlyField ==
    (InsertDone /\ args.schema \in ValidSchemas /\ Fits(args.value, args.schema[2]))
    => /\ ret.err = "none"
       /\ ret.val \in Bytes
       /\ FieldOf(ret.val, args.schema) = NumOf(args.value)
       /\ OutsideOf(ret.val, args.schema) = OutsideOf(args.byte, args.schema)

\* bit_into_byte(0x09, (5,2), "11") == 0x0F
C1_Witness ==
    /\ InsertDone
    /\ args = [byte |-> 9, schema |-> <<5, 2>>, value |-> StrVal(<<1, 1>>)]
    /\ ret = Ok(15)

\* C2: bit_into_byte fails with ValueError, returning no byte, whenever the
\* value needs more bits than the field has (bits < 8, 2^bits <= v <= 255).
C2_InsertRejectsOversizeValue ==
    (/\ InsertDone
     /\ args.schema \in ValidSchemas
     /\ args.schema[2] < 8
     /\ NumOf(args.value) >= Pow2(args.schema[2])
     /\ NumOf(args.value) <= MaxByte)
    => ret = Raise("ValueError")

ExtractDone == op = "byte_bit_value" /\ pc = "done"

\* C3: byte_bit_value is total over its specification: on a field with index
\* in 0..7, bits in 1..8 and index + bits <= 8 it returns
\* (byte >> (8 - (index + bits))) & ((1 << bits) - 1); on every other field
\* it fails with ValueError and returns no value.
C3_ExtractTotal ==
    ExtractDone
    => IF args.schema \in ValidSchemas
       THEN ret = Ok(FieldOf(args.byte, args.schema))
       ELSE ret = Raise("ValueError")

\* byte_bit_value(0x05, (7,1)) == 1
C3_Witness ==
    /\ ExtractDone
    /\ args.byte = 5
    /\ args.schema = <<7, 1>>
    /\ ret = Ok(1)

RoundTripDone == op = "round_trip" /\ pc = "done"

\* C4: round trip: for every byte and every field f with index + bits <= 8,
\* bit_into_byte(byte, f, byte_bit_value(byte, f)) == byte.
C4_RoundTripIdentity ==
    (RoundTripDone /\ args.schema \in ValidSchemas) => ret = Ok(args.byte)

C4_Witness ==
    /\ RoundTripDone
    /\ args.byte = 165
    /\ args.schema = <<2, 3>>
    /\ ret = Ok(165)

(***************************************************************************)
(* pyticc/cc1101.py, class CCAddr: command bits and the address table.     *)
(***************************************************************************)
WRITE_SINGLE_BYTE == 0
WRITE_BURST == 64
READ_SINGLE_BYTE == 128
READ_BURST == 192
\* class CCAddr: every attribute a register or strobe name resolves to.
CCAddr ==
    "WRITE_SINGLE_BYTE" :> 0 @@ "WRITE_BURST" :> 64 @@ "READ_SINGLE_BYTE" :> 128 @@ "READ_BURST" :> 192 @@
    "SRES" :> 48 @@ "SFSTXON" :> 49 @@ "SXOFF" :> 50 @@ "SCAL" :> 51 @@
    "SRX" :> 52 @@ "STX" :> 53 @@ "SIDLE" :> 54 @@ "SWOR" :> 56 @@
    "SPWD" :> 57 @@ "SFRX" :> 58 @@ "SFTX" :> 59 @@ "SWORRST" :> 60 @@
    "SNOP" :> 61 @@ "PATABLE" :> 62 @@ "TXFIFO" :> 63 @@ "RXFIFO" :> 63 @@
    "PARTNUM" :> 240 @@ "VERSION" :> 241 @@ "FREQEST" :> 242 @@ "LQI" :> 243 @@
    "RSSI" :> 244 @@ "MARCSTATE" :> 245 @@ "WORTIME1" :> 246 @@ "WORTIME0" :> 247 @@
    "PKTSTATUS" :> 248 @@ "VCO_VC_DAC" :> 249 @@ "TXBYTES" :> 250 @@ "RXBYTES" :> 251 @@
    "RCCTRL1_STATUS" :> 252 @@ "RCCTRL0_STATUS" :> 253 @@ "IOCFG2" :> 0 @@ "IOCFG1" :> 1 @@
    "IOCFG0" :> 2 @@ "FIFOTHR" :> 3 @@ "SYNC1" :> 4 @@ "SYNC0" :> 5 @@
    "PKTLEN" :> 6 @@ "PKTCTRL1" :> 7 @@ "PKTCTRL0" :> 8 @@ "ADDR" :> 9 @@
    "CHANNR" :> 10 @@ "FSCTRL1" :> 11 @@ "FSCTRL0" :> 12 @@ "FREQ2" :> 13 @@
    "FREQ1" :> 14 @@ "FREQ0" :> 15 @@ "MDMCFG4" :> 16 @@ "MDMCFG3" :> 17 @@
    "MDMCFG2" :> 18 @@ "MDMCFG1" :> 19 @@ "MDMCFG0" :> 20 @@ "DEVIATN" :> 21 @@
    "MCSM2" :> 22 @@ "MCSM1" :> 23 @@ "MCSM0" :> 24 @@ "FOCCFG" :> 25 @@
    "BSCFG" :> 26 @@ "AGCCTRL2" :> 27 @@ "AGCCTRL1" :> 28 @@ "AGCCTRL0" :> 29 @@
    "WOREVT1" :> 30 @@ "WOREVT0" :> 31 @@ "WORCTRL" :> 32 @@ "FREND1" :> 33 @@
    "FREND0" :> 34 @@ "FSCAL3" :> 35 @@ "FSCAL2" :> 36 @@ "FSCAL1" :> 37 @@
    "FSCAL0" :> 38 @@ "RCCTRL1" :> 39 @@ "RCCTRL0" :> 40 @@ "FSTEST" :> 41 @@
    "PTEST" :> 42 @@ "AGCTEST" :> 43 @@ "TEST2" :> 44 @@ "TEST1" :> 45 @@
    "TEST0" :> 46

\* The dict literal of _register_schema; of a repeated key ("PARTNUM") the
\* later entry stands, as in Python.
RegisterSchemaData ==
    "IOCFG2" :> ("GDO2_INV" :> <<1, 1>> @@ "GDO2_CFG[5:0]" :> <<2, 6>>) @@
    "IOCFG1" :> ("GDO_DS" :> <<0, 1>> @@ "GDO1_INV" :> <<1, 1>> @@ "GDO1_CFG[5:0]" :> <<2, 6>>) @@
    "IOCFG0" :> ("TEMP_SENSOR_ENABLE" :> <<0, 1>> @@ "GDO0_INF" :> <<1, 1>> @@ "GDO0_CFG[5:0]" :> <<2, 6>>) @@
    "FIFOTHR" :> ("ADC_RETENTION" :> <<1, 1>> @@ "CLOSE_IN_RX[1:0]" :> <<2, 2>> @@ "FIFO_THR[3:0]" :> <<4, 4>>) @@
    "SYNC1" :> ("SYNC[15:8]" :> <<0, 8>>) @@
    "SYNC0" :> ("SYNC[7:0]" :> <<0, 8>>) @@
    "PKTLEN" :> ("PACKET_LENGTH" :> <<0, 8>>) @@
    "PKTCTRL1" :> ("PQT[2:0]" :> <<0, 3>> @@ "CRC_AUTOFLUSH" :> <<4, 1>> @@ "APPEND_STATUS" :> <<5, 1>> @@ "ADR_CHK[1:0]" :> <<6, 2>>) @@
    "PKTCTRL0" :> ("WHITE_DATA" :> <<1, 1>> @@ "PKT_FORMAT[1:0]" :> <<2, 2>> @@ "CRC_EN" :> <<5, 1>> @@ "LENGTH_CONFIG[1:0]" :> <<6, 2>>) @@
    "ADDR" :> ("DEVICE_ADDR[7:0]" :> <<0, 8>>) @@
    "CHANNR" :> ("CHAN[7:0]" :> <<0, 8>>) @@
    "FSCTRL1" :> ("FREQ_IF[4:0]" :> <<3, 5>>) @@
    "FSCTRL0" :> ("FREQOFF[7:0]" :> <<0, 8>>) @@
    "FREQ2" :> ("FREQ[23:22]" :> <<0, 2>> @@ "FREQ[21:16]" :> <<2, 6>>) @@
    "FREQ1" :> ("FREQ[15:8]" :> <<0, 8>>) @@
    "FREQ0" :> ("FREQ[7:0]" :> <<0, 8>>) @@
    "MDMCFG4" :> ("CHANBW_E[1:0]" :> <<0, 2>> @@ "CHANBW_M[1:0]" :> <<2, 2>> @@ "DRATE_E[3:0]" :> <<4, 4>>) @@
    "MDMCFG3" :> ("DRATE_M[7:0]" :> <<0, 8>>) @@
    "MDMCFG2" :> ("DEM_DCFILT_OFF" :> <<0, 1>> @@ "MOD_FORMAT[2:0]" :> <<1, 3>> @@ "MANCHESTER_EN" :> <<4, 1>> @@ "SYNC_MODE[2:0]" :> <<5, 3>>) @@
    "MDMCFG1" :> ("FEC_EN" :> <<0, 1>> @@ "NUM_PREAMBLE[2:0]" :> <<1, 3>> @@ "CHANSPC_E[1:0]" :> <<6, 1>>) @@
    "MDMCFG0" :> ("CHANSPC_M[7:0]" :> <<0, 8>>) @@
    "DEVIATN" :> ("DEVIATION_E[2:0]" :> <<1, 3>> @@ "DEVIATION_M[2:0]" :> <<5, 3>>) @@
    "MCSM2" :> ("RX_TIME_RSSI" :> <<3, 1>> @@ "RX_TIME_QUAL" :> <<4, 1>> @@ "RX_TIME[2:0]" :> <<5, 3>>) @@
    "MCSM1" :> ("CCA_MODE[1:0]" :> <<2, 2>> @@ "RXOFF_MODE[1:0]" :> <<4, 2>> @@ "TXOFF_MODE[1:0]" :> <<6, 2>>) @@
    "MCSM0" :> ("FS_AUTOCAL[1:0]" :> <<2, 2>> @@ "PO_TIMEOUT" :> <<4, 2>> @@ "PIN_CTRL_EN" :> <<6, 1>> @@ "XOSC_FORCE_ON" :> <<7, 1>>) @@
    "FOCCFG" :> ("FOC_BS_CS_GATE" :> <<2, 1>> @@ "FOC_PRE_K[1:0]" :> <<3, 2>> @@ "FOC_POST_K" :> <<5, 1>> @@ "FOC_LIMIT[1:0]" :> <<6, 2>>) @@
    "BSCFG" :> ("BS_PRE_K[1:0]" :> <<0, 2>> @@ "BS_PRE_KP[1:0]" :> <<2, 2>> @@ "BS_POST_KI" :> <<4, 1>> @@ "BS_POST_KP" :> <<5, 1>> @@ "BS_LIMIT[1:0]" :> <<6, 2>>) @@
    "AGCCTRL2" :> ("MAX_DVGA_GAIN[1:0]" :> <<0, 2>> @@ "MAX_LNA_GAIN[2:0]" :> <<2, 3>> @@ "MAGN_TARGET[2:0]" :> <<5, 3>>) @@
    "AGCCTRL1" :> ("AGC_LNA_PRIORITY" :> <<1, 1>> @@ "CARRIER_SENSE_REL_THR[1:0]" :> <<2, 2>> @@ "CARRIER_SENSE_ABS_THR[3:0]" :> <<4, 4>>) @@
    "AGCCTRL0" :> ("HYST_LEVEL[1:0]" :> <<0, 2>> @@ "WAIT_TIME[1:0]" :> <<2, 2>> @@ "AGC_FREEZE[1:0]" :> <<4, 2>> @@ "FILTER_LENGTH[1:0]" :> <<6, 2>>) @@
    "WOREVT1" :> ("EVENT0[15:8]" :> <<0, 8>>) @@
    "WOREVT0" :> ("EVENT0[7:0]" :> <<0, 8>>) @@
    "WORCTRL" :> ("RC_PD" :> <<0, 1>> @@ "EVENT1[2:0]" :> <<1, 3>> @@ "RC_CAL" :> <<4, 1>> @@ "WOR_RES" :> <<6, 2>>) @@
    "FREND1" :> ("LNA_CURRENT[1:0]" :> <<0, 2>> @@ "LNA2MIX_CURRENT[1:0]" :> <<2, 2>> @@ "LODIV_BUF_CURRENT_RX[1:0]" :> <<4, 2>> @@ "MIX_CURRENT[1:0]" :> <<6, 2>>) @@
    "FREND0" :> ("LODIV_BUF_CURRENT_TX[1:0]" :> <<2, 2>> @@ "PA_POWER[2:0]" :> <<5, 3>>) @@
    "FSCAL3" :> ("FSCAL3[7:6]" :> <<0, 2>> @@ "CHP_CURR_CAL_EN[1:0]" :> <<2, 2>> @@ "FSCAL3[3:0]" :> <<4, 4>>) @@
    "FSCAL2" :> ("VCO_CORE_H_EN" :> <<2, 1>> @@ "FSCAL2[4:0]" :> <<3, 5>>) @@
    "FSCAL1" :> ("FSCAL1[5:0]" :> <<2, 6>>) @@
    "FSCAL0" :> ("FSCAL0[6:0]" :> <<1, 7>>) @@
    "RCCTRL1" :> ("RCCTRL1[6:0]" :> <<1, 7>>) @@
    "RCCTRL0" :> ("RCCTRL0[6:0]" :> <<1, 7>>) @@
    "FSTEST" :> ("FSTEST[7:0]" :> <<0, 8>>) @@
    "PTEST" :> ("PTEST[7:0]" :> <<0, 8>>) @@
    "AGCTEST" :> ("AGCTEST[7:0]" :> <<0, 8>>) @@
    "TEST2" :> ("TEST2[7:0]" :> <<0, 8>>) @@
    "TEST1" :> ("TEST1[7:0]" :> <<0, 8>>) @@
    "TEST0" :> ("TEST0[7:2]" :> <<0, 6>> @@ "VCO_SEL_CAL_EN" :> <<6, 1>> @@ "TEST0[0]" :> <<7, 1>>) @@
    "PARTNUM" :> ("VERSION[7:0]" :> <<0, 8>>) @@
    "FREQEST" :> ("FREQOSS_EST" :> <<0, 8>>) @@
    "LQI" :> ("CRC_OK" :> <<0, 1>> @@ "LQI_EST[6:0]" :> <<1, 7>>) @@
    "RSSI" :> ("RSSI" :> <<0, 8>>) @@
    "MARCSTATE" :> ("MARC_STATE[4:0]" :> <<3, 5>>) @@
    "WORTIME1" :> ("TIME[15:8]" :> <<0, 8>>) @@
    "WORTIME0" :> ("TIME[7:0]" :> <<0, 8>>) @@
    "PKTSTATUS" :> ("CRC_OK" :> <<0, 1>> @@ "CS" :> <<1, 1>> @@ "PQT_REACHED" :> <<2, 1>> @@ "CCA" :> <<3, 1>> @@ "SFD" :> <<4, 1>> @@ "GDO2" :> <<5, 1>> @@ "GDO0" :> <<7, 1>>) @@
    "VCO_VC_DAC" :> ("VCO_VC_DAC[7:0]" :> <<0, 8>>) @@
    "TXBYTES" :> ("TXFIFO_UNDERFLOW" :> <<0, 1>> @@ "NUM_TXBYTES" :> <<1, 7>>) @@
    "RXBYTES" :> ("RXFIFO_UNDERFLOW" :> <<0, 1>> @@ "NUM_TXBYTES" :> <<1, 7>>) @@
    "RCCTRL1_STATUS" :> ("RCCTRL1_STATUS[6:0]" :> <<1, 7>>) @@
    "RCCTRL0_STATUS" :> ("RCCTRL0_STATUS[6:0]" :> <<1, 7>>)

(***************************************************************************)
(* The chip on the far side of spi.xfer.  A transfer returns as many bytes *)
(* as it was given.  A single-byte write to a configuration register       *)
(* (header 0x00..0x2E) stores the byte; a single-byte read of one (header  *)
(* 0x80..0xAE) answers with the stored byte.  What the chip answers to any *)
(* other read (a status register, a FIFO) is its own business: the caller  *)
(* of xfer passes it in as chip, a byte for a two-byte transfer and a      *)
(* sequence of bytes for a burst.  The first byte of every answer, and the *)
(* answer to a write or a strobe, is the chip status byte.                 *)
(***************************************************************************)
ConfigAddrs == 0..46

ChipStatusByte == 0

ChipAfter(r, buff) ==
    IF Len(buff) = 2 /\ buff[1] \in ConfigAddrs
    THEN [r EXCEPT ![buff[1]] = buff[2]]
    ELSE r

ChipAnswer(r, buff, chip) ==
    IF Len(buff) = 2 /\ buff[1] >= READ_SINGLE_BYTE
                     /\ buff[1] - READ_SINGLE_BYTE \in ConfigAddrs
    THEN <<ChipStatusByte, r[buff[1] - READ_SINGLE_BYTE]>>
    ELSE IF Len(buff) = 2 /\ buff[1] >= READ_SINGLE_BYTE
    THEN <<ChipStatusByte, chip>>
    ELSE IF Len(buff) >= 1 /\ buff[1] >= READ_SINGLE_BYTE
    THEN [i \in 1..Len(buff) |-> IF i = 1 THEN ChipStatusByte ELSE chip[i - 1]]
    ELSE [i \in 1..Len(buff) |-> ChipStatusByte]

\* F applied to the value of e, evaluated once.
Then(e, F(_)) == CHOOSE y \in {F(x) : x \in {e}} : TRUE

\* The driver's world: the transfers made so far, each with the chip's
\* answer, and the chip's configuration registers.
World(b, r) == [bus |-> b, regs |-> r]

\* self.spi.xfer(buff)
xfer(w, buff, chip) ==
    Then(ChipAnswer(w.regs, buff, chip), LAMBDA rx :
        [w   |-> World(Append(w.bus, [tx |-> buff, rx |-> rx]), ChipAfter(w.regs, buff)),
         ret |-> Ok(rx)])

\* A call that raised before it touched the bus.
Failed(w, e) == [w |-> w, ret |-> e]

(***************************************************************************)
(* pyticc/base.py, class CCBase.  A name argument is an int,               *)
(* IntRef(n), a str, StrRef(s), or a value of another type, OtherRef.      *)
(***************************************************************************)
IntRef(n) == [kind |-> "int", n |-> n, s |-> ""]

StrRef(s) == [kind |-> "str", n |-> 0, s |-> s]

OtherRef == [kind |-> "other", n |-> 0, s |-> ""]

\* self.osc_freq, set by CC1101.__init__
osc_freq == 26000000

\* getattr(self, name): the class attributes of CCAddr and the instance
\* attribute osc_freq; a name the object has no attribute of raises.
_get_address(name) ==
    IF name.kind = "int" THEN Ok(name.n)
    ELSE IF name.kind = "str"
    THEN IF name.s \in DOMAIN CCAddr THEN Ok(CCAddr[name.s])
         ELSE IF name.s = "osc_freq" THEN Ok(osc_freq)
         ELSE Raise("AttributeError")
    ELSE Raise("ValueError")

read_byte(w, name, chip) ==
    LET addr == _get_address(name)
    IN  IF addr.err # "none" THEN Failed(w, addr)
        ELSE Then(xfer(w, <<BitOr(READ_SINGLE_BYTE, addr.val), 0>>, chip), LAMBDA x :
                 [w |-> x.w, ret |-> Ok(x.ret.val[2])])

write_byte(w, name, byte) ==
    LET addr == _get_address(name)
    IN  IF addr.err # "none" THEN Failed(w, addr)
        ELSE xfer(w, <<BitOr(WRITE_SINGLE_BYTE, addr.val), byte>>, 0)

\* buff after "for x in range(length + 1): buff.append((addr + x*8) | READ_BURST)"
BurstBuff(addr, length) ==
    [x \in 1..(IF length + 1 > 0 THEN length + 1 ELSE 0) |->
        BitOr(addr + (x - 1) * 8, READ_BURST)]

\* A variant of read_burst that asks for length bytes in all, the command
\* byte included.
read_burst_short(w, name, length, chip) ==
    LET addr == _get_address(name)
    IN  IF addr.err # "none" THEN Failed(w, addr)
        ELSE Then(xfer(w, BurstBuff(addr.val, length - 1), chip), LAMBDA x :
                 [w |-> x.w, ret |-> Ok(SubSeq(x.ret.val, 2, Len(x.ret.val)))])

read_burst(w, name, length, chip) ==
    LET addr == _get_address(name)
    IN  IF addr.err # "none" THEN Failed(w, addr)
        ELSE Then(xfer(w, BurstBuff(addr.val, length), chip), LAMBDA x :
                 [w |-> x.w, ret |-> Ok(SubSeq(x.ret.val, 2, Len(x.ret.val)))])

\* def write_burst(self, address, data): addr = self._get_address(name)
\* The parameter is called address; name is bound nowhere in the method, the
\* module or the builtins, so evaluating it raises NameError before
\* _get_address is called, before data.insert and before spi.xfer.
write_burst(w, address, data) == Failed(w, Raise("NameError"))

strobe(w, name) ==
    LET addr == _get_address(name)
    IN  IF addr.err # "none" THEN Failed(w, addr)
        ELSE xfer(w, <<addr.val, 0>>, 0)

\* self.read_byte(self.MARCSTATE) & 0x1F
marcstate_(w, chip) ==
    Then(read_byte(w, IntRef(CCAddr["MARCSTATE"]), chip), LAMBDA r :
        [w |-> r.w, ret |-> Ok(BitAnd(r.ret.val, 31))])

\* A variant that strobes the other FIFO's flush.
flush_rx_fifo_other_fifo(w) == strobe(w, IntRef(CCAddr["SFTX"]))

flush_rx_fifo(w) == strobe(w, IntRef(CCAddr["SFRX"]))

\* strobe(STX), then cmd_delay(2)
enable_tx(w) == strobe(w, IntRef(CCAddr["STX"]))

_extract_val_from_byte(byte, schema) == byte_bit_value(byte, schema)

_update_val_in_byte(byte, schema, value) == bit_into_byte(byte, schema, value)

(***************************************************************************)
(* pyticc/cc1101.py, class CC1101.                                         *)
(***************************************************************************)
\* name is the Python value passed: only a str can be a key of data.
_register_schema(name) ==
    IF name.kind = "str" /\ name.s \in DOMAIN RegisterSchemaData
    THEN Ok(RegisterSchemaData[name.s])
    ELSE Raise("ValueError")

\* The dict of every attribute's value; the first attribute whose extraction
\* raises ends the call.
_register_value_from_byte(name, byte) ==
    Then(_register_schema(name), LAMBDA spec :
        IF spec.err # "none" THEN spec
        ELSE Then([a \in DOMAIN spec.val |-> _extract_val_from_byte(byte, spec.val[a])],
                  LAMBDA data :
                     IF \E a \in DOMAIN data : data[a].err # "none"
                     THEN Raise("ValueError")
                     ELSE Ok([a \in DOMAIN data |-> data[a].val])))

register_value(w, name, chip) ==
    Then(read_byte(w, name, chip), LAMBDA r :
        IF r.ret.err # "none" THEN r
        ELSE [w |-> r.w, ret |-> _register_value_from_byte(name, r.ret.val)])

\* A variant of register_write that merges the value into a zero byte, not
\* into the byte it read.
register_write_no_merge(w, name, attr_name, value, chip) ==
    Then(read_byte(w, name, chip), LAMBDA r :
        IF r.ret.err # "none" THEN r
        ELSE Then(_register_schema(name), LAMBDA schema :
            IF schema.err # "none" THEN [w |-> r.w, ret |-> schema]
            ELSE IF attr_name \notin DOMAIN schema.val
            THEN [w |-> r.w, ret |-> Raise("KeyError")]
            ELSE Then(_update_val_in_byte(0, schema.val[attr_name], value),
                      LAMBDA new_value :
                         IF new_value.err # "none" THEN [w |-> r.w, ret |-> new_value]
                         ELSE [w   |-> write_byte(r.w, name, new_value.val).w,
                               ret |-> Ok(NoValue)])))

\* byte = read_byte(name); spec = _register_schema(name)[attr_name];
\* new_value = _update_val_in_byte(byte, spec, value); write_byte(name, new_value)
\* (spec is a two-element list, so "if not spec" never raises.)
register_write(w, name, attr_name, value, chip) ==
    Then(read_byte(w, name, chip), LAMBDA r :
        IF r.ret.err # "none" THEN r
        ELSE Then(_register_schema(name), LAMBDA schema :
            IF schema.err # "none" THEN [w |-> r.w, ret |-> schema]
            ELSE IF attr_name \notin DOMAIN schema.val
            THEN [w |-> r.w, ret |-> Raise("KeyError")]
            ELSE Then(_update_val_in_byte(r.ret.val, schema.val[attr_name], value),
                      LAMBDA new_value :
                         IF new_value.err # "none" THEN [w |-> r.w, ret |-> new_value]
                         ELSE [w   |-> write_byte(r.w, name, new_value.val).w,
                               ret |-> Ok(NoValue)])))

\* packet_length() with no argument: the first mode, in the dict's order,
\* whose code equals LENGTH_CONFIG; None when there is none.
PacketModes ==
    << <<"PKT_LEN_FIXED", <<0, 0>> >>,
       <<"PKT_LEN_VARIABLE", <<0, 1>> >>,
       <<"PKT_LEN_INFINITE", <<1, 0>> >> >>

packet_length(w) ==
    Then(register_value(w, StrRef("PKTCTRL0"), 0), LAMBDA r :
        IF r.ret.err # "none" THEN r
        ELSE Then({i \in 1..Len(PacketModes) :
                      Int2(PacketModes[i][2]) = r.ret.val["LENGTH_CONFIG[1:0]"]},
                  LAMBDA hits :
                     [w   |-> r.w,
                      ret |-> IF hits = {} THEN Ok("None")
                              ELSE Ok(PacketModes[CHOOSE i \in hits :
                                                     \A j \in hits : i <= j][1])]))

\* [0] * n
Zeros(n) == [i \in 1..(IF n > 0 THEN n ELSE 0) |-> 0]

\* The outcome of a step of send_data: the world, the call's outcome so far
\* and the local list payload.
Framed(w, ret_, payload_) == [w |-> w, ret |-> ret_, payload |-> payload_]

\* if self.register_value("PKTCTRL1")['APPEND_STATUS']:
\*     payload.append(self.read_byte(self.ADDR))
AppendAddress(w, payload_) ==
    Then(register_value(w, StrRef("PKTCTRL1"), 0), LAMBDA r :
        IF r.ret.err # "none" THEN Framed(r.w, r.ret, payload_)
        ELSE IF r.ret.val["APPEND_STATUS"] # 0
        THEN Then(read_byte(r.w, IntRef(CCAddr["ADDR"]), 0), LAMBDA a :
                 Framed(a.w, Ok(TRUE), Append(payload_, a.ret.val)))
        ELSE Framed(r.w, Ok(FALSE), payload_))

\* The FIXED branch of send_data.
FixedFrame(w, bytes) ==
    Then(read_byte(w, IntRef(CCAddr["PKTLEN"]), 0), LAMBDA limit :
        IF Len(bytes) > limit.ret.val
        THEN Framed(limit.w, Raise("ValueError"), <<>>)
        ELSE Then(AppendAddress(limit.w, <<>>), LAMBDA a :
            IF a.ret.err # "none" THEN a
            ELSE Then(read_byte(a.w, IntRef(CCAddr["PKTLEN"]), 0), LAMBDA len :
                Framed(len.w, Ok(NoValue),
                       a.payload \o bytes
                           \o Zeros(len.ret.val - Len(a.payload \o bytes))))))

\* The VARIABLE branch of send_data.
VariableFrame(w, bytes) ==
    Then(AppendAddress(w, <<Len(bytes)>>), LAMBDA a :
        IF a.ret.err # "none" THEN a
        ELSE IF a.ret.val
        THEN Framed(a.w, Ok(NoValue), <<a.payload[1] + 1>> \o Tail(a.payload) \o bytes)
        ELSE Framed(a.w, Ok(NoValue), a.payload \o bytes))

\* send_data from "sending_mode = self.packet_length()" to the call of
\* write_burst: the frame to send, or the exception raised on the way.
BuildFrame(w, bytes) ==
    Then(packet_length(w), LAMBDA mode :
        IF mode.ret.err # "none" THEN Framed(mode.w, mode.ret, <<>>)
        ELSE IF mode.ret.val = "PKT_LEN_FIXED" THEN FixedFrame(mode.w, bytes)
        ELSE IF mode.ret.val = "PKT_LEN_VARIABLE" THEN VariableFrame(mode.w, bytes)
        ELSE IF mode.ret.val = "PKT_LEN_INFINITE"
        THEN Framed(mode.w, Raise("Exception"), <<>>)
        ELSE Framed(mode.w, Ok(NoValue), <<>>))
\* strobe(SRX), then cmd_delay(2)
enable_rx(w) == strobe(w, IntRef(CCAddr["SRX"]))

(***************************************************************************)
(* recv_data.  What it returns is None, False or the list read from the    *)
(* RX FIFO.                                                                *)
(***************************************************************************)
RecvNone == [type |-> "NoneType", list |-> <<>>]

RecvFalse == [type |-> "bool", list |-> <<>>]

RecvList(l) == [type |-> "list", list |-> l]

\* A call that has not ended.
Pending == Raise("pending")

\* The outcome of recv_data's choice of data_len: the world, the call's
\* outcome if it ended there, and data_len.
Sized(w, ret_, data_len) == [w |-> w, ret |-> ret_, len |-> data_len]

\* A variant of RecvLength that reads the RX FIFO's length byte and never
\* compares it with PKTLEN.
RecvLength_unchecked(w, lenbyte) ==
    Then(packet_length(w), LAMBDA mode :
        IF mode.ret.err # "none" THEN Sized(mode.w, mode.ret, 0)
        ELSE IF mode.ret.val = "PKT_LEN_FIXED"
        THEN Then(read_byte(mode.w, IntRef(CCAddr["PKTLEN"]), 0), LAMBDA n :
                 Sized(n.w, Pending, n.ret.val))
        ELSE IF mode.ret.val = "PKT_LEN_VARIABLE"
        THEN Then(read_byte(mode.w, IntRef(CCAddr["PKTLEN"]), 0), LAMBDA max_len :
                 Then(read_byte(max_len.w, IntRef(CCAddr["RXFIFO"]), lenbyte),
                      LAMBDA data_len : Sized(data_len.w, Pending, data_len.ret.val)))
        ELSE IF mode.ret.val = "PKT_LEN_INFINITE"
        THEN Sized(mode.w, Raise("Exception"), 0)
        ELSE Sized(mode.w, Raise("UnboundLocalError"), 0))

\* pkt_len = self.packet_length() and the branches on it; lenbyte is what the
\* chip shifts out of the RX FIFO for read_byte(RXFIFO).  With pkt_len None
\* no branch assigns data_len, and the read_burst line raises
\* UnboundLocalError.
RecvLength(w, lenbyte) ==
    Then(packet_length(w), LAMBDA mode :
        IF mode.ret.err # "none" THEN Sized(mode.w, mode.ret, 0)
        ELSE IF mode.ret.val = "PKT_LEN_FIXED"
        THEN Then(read_byte(mode.w, IntRef(CCAddr["PKTLEN"]), 0), LAMBDA n :
                 Sized(n.w, Pending, n.ret.val))
        ELSE IF mode.ret.val = "PKT_LEN_VARIABLE"
        THEN Then(read_byte(mode.w, IntRef(CCAddr["PKTLEN"]), 0), LAMBDA max_len :
                 Then(read_byte(max_len.w, IntRef(CCAddr["RXFIFO"]), lenbyte),
                      LAMBDA data_len :
                         IF data_len.ret.val > max_len.ret.val
                         THEN Sized(data_len.w, Ok(RecvFalse), 0)
                         ELSE Sized(data_len.w, Pending, data_len.ret.val)))
        ELSE IF mode.ret.val = "PKT_LEN_INFINITE"
        THEN Sized(mode.w, Raise("Exception"), 0)
        ELSE Sized(mode.w, Raise("UnboundLocalError"), 0))

\* The outcome of a step of recv_data: the world, the call's outcome so far
\* and the local list data.
Received(w, ret_, data_) == [w |-> w, ret |-> ret_, data |-> data_]

\* A variant of HasData that forgets the overflow bit.
HasData_any_count(rx_bytes_val) == BitAnd(rx_bytes_val, 127) # 0

\* if (rx_bytes_val & 0x7F and not (rx_bytes_val & 0x80))
HasData(rx_bytes_val) ==
    BitAnd(rx_bytes_val, 127) # 0 /\ BitAnd(rx_bytes_val, 128) = 0

\* A variant of RecvRead that returns to idle before it flushes the RX FIFO.
RecvRead_idle_first(w, rxbytes, lenbyte, fifo) ==
    Then(read_byte(enable_rx(w).w, IntRef(CCAddr["RXBYTES"]), rxbytes), LAMBDA rx :
        IF HasData(rx.ret.val)
        THEN Then(RecvLength(rx.w, lenbyte), LAMBDA s :
                 IF s.ret.err # "pending" THEN Received(s.w, s.ret, <<>>)
                 ELSE Then(read_burst(s.w, IntRef(CCAddr["RXFIFO"]), s.len, fifo),
                           LAMBDA b :
                              Received(flush_rx_fifo(strobe(b.w,
                                              IntRef(CCAddr["SIDLE"])).w).w,
                                       Pending, b.ret.val)))
        ELSE Received(rx.w, Ok(RecvNone), <<>>))


\* recv_data up to the SIDLE strobe of sidle(): enable_rx(), the read of
\* RXBYTES, the choice of data_len, read_burst, flush_rx_fifo() and
\* strobe(SIDLE).  rxbytes, lenbyte and fifo are what the chip answers to
\* the reads of RXBYTES and of the RX FIFO.
RecvRead(w, rxbytes, lenbyte, fifo) ==
    Then(read_byte(enable_rx(w).w, IntRef(CCAddr["RXBYTES"]), rxbytes), LAMBDA rx :
        IF HasData(rx.ret.val)
        THEN Then(RecvLength(rx.w, lenbyte), LAMBDA s :
                 IF s.ret.err # "pending" THEN Received(s.w, s.ret, <<>>)
                 ELSE Then(read_burst(s.w, IntRef(CCAddr["RXFIFO"]), s.len, fifo),
                           LAMBDA b :
                              Received(strobe(flush_rx_fifo(b.w).w,
                                              IntRef(CCAddr["SIDLE"])).w,
                                       Pending, b.ret.val)))
        ELSE Received(rx.w, Ok(RecvNone), <<>>))
(***************************************************************************)
(* The configuration setters of CC1101.  A method called with its argument *)
(* None (a get) is the operator named name_get; called with a value it is   *)
(* the operator named as the method.  Python's None as a returned value is *)
(* "None".                                                                 *)
(***************************************************************************)
\* for k, v in table.items(): if int(v, 2) == code: return k ... return None
FirstMatch(table, code) ==
    LET hits == {i \in 1..Len(table) : Int2(table[i][2]) = code}
    IN  IF hits = {} THEN "None"
        ELSE table[CHOOSE i \in hits : \A j \in hits : i <= j][1]

Keys(table) == {table[i][1] : i \in 1..Len(table)}

Lookup(table, k) == table[CHOOSE i \in 1..Len(table) : table[i][1] = k][2]

\* A step that goes on with F only when the step before it did not raise.
Unless(r, F(_)) == IF r.ret.err # "none" THEN r ELSE F(r)

\* The dict schemes of modulation, in its order.
Schemes ==
    << <<"2-FSK", <<0, 0, 0>> >>,
       <<"GFSK",  <<0, 0, 1>> >>,
       <<"ASK",   <<0, 1, 1>> >>,
       <<"OOK",   <<0, 1, 1>> >>,
       <<"4-FSK", <<1, 0, 0>> >>,
       <<"MSK",   <<1, 1, 1>> >> >>

modulation_get(w) ==
    Then(register_value(w, StrRef("MDMCFG2"), 0), LAMBDA r :
        IF r.ret.err # "none" THEN r
        ELSE [w |-> r.w, ret |-> Ok(FirstMatch(Schemes, r.ret.val["MOD_FORMAT[2:0]"]))])

\* A variant of modulation that reads MDMCFG2 before it checks the name.
modulation_read_first(w, name) ==
    Then(register_value(w, StrRef("MDMCFG2"), 0), LAMBDA d :
        IF name \notin Keys(Schemes) THEN Failed(d.w, Raise("ValueError"))
        ELSE Then(register_write(d.w, StrRef("MDMCFG2"), "MOD_FORMAT[2:0]",
                                 StrVal(Lookup(Schemes, name)), 0), LAMBDA wr :
             Unless(wr, LAMBDA wr1 : modulation_get(wr1.w))))

\* modulation(modulation) with a str: the check, the read of MDMCFG2 that
\* precedes the branch, register_write and the get that returns.
modulation(w, name) ==
    IF name \notin Keys(Schemes) THEN Failed(w, Raise("ValueError"))
    ELSE Then(register_value(w, StrRef("MDMCFG2"), 0), LAMBDA d :
         Unless(d, LAMBDA d1 :
         Then(register_write(d1.w, StrRef("MDMCFG2"), "MOD_FORMAT[2:0]",
                             StrVal(Lookup(Schemes, name)), 0), LAMBDA wr :
         Unless(wr, LAMBDA wr1 : modulation_get(wr1.w)))))

\* packet_length(mode) with a str.
packet_length_mode(w, mode) ==
    IF mode \notin Keys(PacketModes) THEN Failed(w, Raise("ValueError"))
    ELSE Then(register_write(w, StrRef("PKTCTRL0"), "LENGTH_CONFIG[1:0]",
                             StrVal(Lookup(PacketModes, mode)), 0), LAMBDA wr :
         Unless(wr, LAMBDA wr1 : packet_length(wr1.w)))

\* register_value(name)[attr_name]
RegisterAttr(w, name, attr_name) ==
    Then(register_value(w, StrRef(name), 0), LAMBDA r :
        IF r.ret.err # "none" THEN r
        ELSE [w |-> r.w, ret |-> Ok(r.ret.val[attr_name])])

manchester_get(w) == RegisterAttr(w, "MDMCFG2", "MANCHESTER_EN")

manchester(w, value) ==
    Then(register_write(w, StrRef("MDMCFG2"), "MANCHESTER_EN", IntVal(value), 0),
         LAMBDA wr : Unless(wr, LAMBDA wr1 : manchester_get(wr1.w)))

whitening_get(w) == RegisterAttr(w, "PKTCTRL0", "WHITE_DATA")

whitening(w, value) ==
    Then(register_write(w, StrRef("PKTCTRL0"), "WHITE_DATA", IntVal(value), 0),
         LAMBDA wr : Unless(wr, LAMBDA wr1 : whitening_get(wr1.w)))

\* The branches of rx_bandwidth: value, bw_e, bw_m of write_this_bw(bw_e, bw_m).
Bandwidths ==
    << <<58000, 3, 3>>, <<100000, 3, 0>>, <<232000, 1, 3>>,
       <<325000, 1, 1>>, <<540000, 0, 2>>, <<812000, 0, 0>> >>

\* int(self.osc_freq / 8 * (4 + bwm) * math.pow(2, bwe)); osc_freq / 8 and
\* the products are whole numbers, held exactly by a float.
rx_bandwidth_get(w) ==
    Then(register_value(w, StrRef("MDMCFG4"), 0), LAMBDA r :
        IF r.ret.err # "none" THEN r
        ELSE [w   |-> r.w,
              ret |-> Ok((osc_freq \div 8) * (4 + r.ret.val["CHANBW_M[1:0]"])
                            * Pow2(r.ret.val["CHANBW_E[1:0]"]))])

write_this_bw(w, bw_e, bw_m) ==
    Then(register_write(w, StrRef("MDMCFG4"), "CHANBW_M[1:0]", IntVal(bw_m), 0),
         LAMBDA a : Unless(a, LAMBDA a1 :
            register_write(a1.w, StrRef("MDMCFG4"), "CHANBW_E[1:0]", IntVal(bw_e), 0)))

rx_bandwidth(w, value) ==
    IF \A i \in 1..Len(Bandwidths) : Bandwidths[i][1] # value
    THEN Failed(w, Raise("ValueError"))
    ELSE LET b == Bandwidths[CHOOSE i \in 1..Len(Bandwidths) : Bandwidths[i][1] = value]
         IN  Then(write_this_bw(w, b[2], b[3]), LAMBDA wr :
                 Unless(wr, LAMBDA wr1 : rx_bandwidth_get(wr1.w)))

(***************************************************************************)
(* Hexadecimal strings.  A str is the sequence of its characters.          *)
(***************************************************************************)
LowerHex == <<"0", "1", "2", "3", "4", "5", "6", "7", "8", "9",
              "a", "b", "c", "d", "e", "f">>

UpperHex == <<"0", "1", "2", "3", "4", "5", "6", "7", "8", "9",
              "A", "B", "C", "D", "E", "F">>

\* The value of a hexadecimal digit of either case, -1 for another character.
HexValue(c) ==
    IF \E i \in 1..16 : LowerHex[i] = c THEN (CHOOSE i \in 1..16 : LowerHex[i] = c) - 1
    ELSE IF \E i \in 1..16 : UpperHex[i] = c
    THEN (CHOOSE i \in 1..16 : UpperHex[i] = c) - 1
    ELSE -1

RECURSIVE HexNumber(_)
HexNumber(s) ==
    IF Len(s) = 0 THEN 0
    ELSE 16 * HexNumber(SubSeq(s, 1, Len(s) - 1)) + HexValue(s[Len(s)])

\* int(s, 16) for a str of digits and letters
Int16(s) ==
    IF Len(s) = 0 \/ \E i \in 1..Len(s) : HexValue(s[i]) = -1
    THEN Raise("ValueError")
    ELSE Ok(HexNumber(s))

\* "{:x}".format(n) for n >= 0; hex(n) is "0x" before the same digits
RECURSIVE Hex(_)
Hex(n) == IF n < 16 THEN <<LowerHex[n + 1]>> ELSE Append(Hex(n \div 16), LowerHex[(n % 16) + 1])

\* s.zfill(w) for a str with no sign
RECURSIVE zfill_str(_, _)
zfill_str(s, w) == IF Len(s) >= w THEN s ELSE zfill_str(<<"0">> \o s, w)

\* A variant of upper that leaves every character as it is.
upper_keep_case(s) == s

\* s.upper()
upper(s) ==
    [i \in 1..Len(s) |->
        IF \E k \in 11..16 : LowerHex[k] = s[i]
        THEN UpperHex[CHOOSE k \in 11..16 : LowerHex[k] = s[i]]
        ELSE s[i]]

SyncInt(n) == [kind |-> "int", n |-> n, s |-> <<>>]

SyncStr(s) == [kind |-> "str", n |-> 0, s |-> s]

SyncOther == [kind |-> "other", n |-> 0, s |-> <<>>]

sync_word_get(w) ==
    Then(read_byte(w, StrRef("SYNC1"), 0), LAMBDA s1 :
    Then(read_byte(s1.w, StrRef("SYNC0"), 0), LAMBDA s0 :
        [w   |-> s0.w,
         ret |-> Ok(upper(zfill_str(Hex(s1.ret.val), 2))
                    \o upper(zfill_str(Hex(s0.ret.val), 2)))]))

\* The two register_write calls of sync_word and the get that returns.
sync_word_write(w, s1, s0) ==
    Then(register_write(w, StrRef("SYNC1"), "SYNC[15:8]", IntVal(s1), 0), LAMBDA a :
    Unless(a, LAMBDA a1 :
    Then(register_write(a1.w, StrRef("SYNC0"), "SYNC[7:0]", IntVal(s0), 0), LAMBDA b :
    Unless(b, LAMBDA b1 : sync_word_get(b1.w)))))

\* sync_word(value) with a value that is not None; an int value is >= 0.
sync_word(w, value) ==
    IF value.kind = "str"
    THEN IF Len(value.s) # 4 THEN Failed(w, Raise("ValueError"))
         ELSE LET s1 == Int16(SubSeq(value.s, 1, 2))
                  s0 == Int16(SubSeq(value.s, 3, 4))
              IN  IF s1.err # "none" THEN Failed(w, s1)
                  ELSE IF s0.err # "none" THEN Failed(w, s0)
                  ELSE sync_word_write(w, s1.val, s0.val)
    ELSE IF value.kind = "int"
    THEN sync_word_write(w, RShift(value.n, 8), BitAnd(value.n, 255))
    ELSE Failed(w, Raise("ValueError"))

(***************************************************************************)
(* base_frequency.                                                         *)
(***************************************************************************)
RECURSIVE GCD(_, _)
GCD(a, b) == IF b = 0 THEN a ELSE GCD(b, a % b)

\* int(a * b / c) for a, b >= 0 and c > 0, with b and c reduced first so that
\* no product leaves the integers at hand
MulDiv(a, b, c) == (a * (b \div GCD(b, c))) \div (c \div GCD(b, c))

Frequencies == {315, 433, 868, 915}

\* The float base_frequency returns is times * osc_freq / 2^18 exactly:
\* (osc_freq / 2^16) * (freq + chan * ((256 + chanspc_m) * 2^(chanspc_e - 2)))
\* with times = 4 * freq + chan * (256 + chanspc_m) * 2^chanspc_e.
Hertz(times) == [times |-> times, of |-> "osc_freq / 2^18"]

base_frequency_get(w) ==
    Then(read_byte(w, IntRef(CCAddr["FREQ2"]), 0), LAMBDA f2 :
    Then(read_byte(f2.w, IntRef(CCAddr["FREQ1"]), 0), LAMBDA f1 :
    Then(read_byte(f1.w, IntRef(CCAddr["FREQ0"]), 0), LAMBDA f0 :
    Then(RegisterAttr(f0.w, "CHANNR", "CHAN[7:0]"), LAMBDA chan :
    Unless(chan, LAMBDA chan1 :
    Then(RegisterAttr(chan1.w, "MDMCFG0", "CHANSPC_M[7:0]"), LAMBDA chanspc_m :
    Unless(chanspc_m, LAMBDA m1 :
    Then(RegisterAttr(m1.w, "MDMCFG1", "CHANSPC_E[1:0]"), LAMBDA chanspc_e :
    Unless(chanspc_e, LAMBDA e1 :
        [w   |-> e1.w,
         ret |-> Ok(Hertz(4 * (f2.ret.val * 65536 + f1.ret.val * 256 + f0.ret.val)
                          + chan.ret.val * (256 + chanspc_m.ret.val)
                              * Pow2(chanspc_e.ret.val)))])))))))))

\* carrier = int(0x10000 * (freq * 1000000) / self.osc_freq)
Carrier(freq) == MulDiv(65536 * freq, 1000000, osc_freq)

\* int(hex(carrier >> i & 0xff), 16)
CarrierByte(carrier, i) == Int16(Hex(BitAnd(RShift(carrier, i), 255))).val

\* base_frequency(freq) after sidle(): the three writes and the get that
\* returns.
base_frequency_write(w, freq) ==
    Then(write_byte(w, IntRef(CCAddr["FREQ0"]), CarrierByte(Carrier(freq), 0)), LAMBDA a :
    Then(write_byte(a.w, IntRef(CCAddr["FREQ1"]), CarrierByte(Carrier(freq), 8)), LAMBDA b :
    Then(write_byte(b.w, IntRef(CCAddr["FREQ2"]), CarrierByte(Carrier(freq), 16)), LAMBDA c :
        base_frequency_get(c.w))))

(***************************************************************************)
(* baud_rate.  The floats of the source are quotients of integers; the     *)
(* int() of each is its whole part.                                        *)
(***************************************************************************)
\* int(a * b / c) for a, b >= 0 and c > 0, reduced to lowest terms first
WholePart(a, b, c) ==
    LET g  == GCD(b, c)
        c1 == c \div g
        h  == GCD(a, c1)
    IN  ((a \div h) * (b \div g)) \div (c1 \div h)

\* int(math.log(x, 2)) for x >= 1, given the whole part n of x
RECURSIVE Log2(_)
Log2(n) == IF n < 2 THEN 0 ELSE 1 + Log2(n \div 2)

\* int(((256 + drate_m) * math.pow(2, drate_e) / math.pow(2, 28)) * self.osc_freq)
baud_rate_get(w) ==
    Then(RegisterAttr(w, "MDMCFG4", "DRATE_E[3:0]"), LAMBDA e :
        Unless(e, LAMBDA e1 :
    Then(RegisterAttr(e1.w, "MDMCFG3", "DRATE_M[7:0]"), LAMBDA m :
        Unless(m, LAMBDA m1 :
            [w   |-> m1.w,
             ret |-> Ok(WholePart((256 + m1.ret.val) * Pow2(e1.ret.val),
                                  osc_freq, Pow2(28)))]))))

\* int(math.log(rate * math.pow(2, 20) / self.osc_freq, 2)), for a rate of
\* at least osc_freq / 2^20
baud_rate_exponent(rate) == Log2(WholePart(rate, Pow2(20), osc_freq))

\* A variant that rounds the quotient up.
baud_rate_mantissa_up(rate, drate_e) ==
    WholePart(rate, Pow2(28 - drate_e), osc_freq) + 1 - 256

\* int((rate * math.pow(2, 28) / (self.osc_freq * math.pow(2, drate_e)))) - 256
baud_rate_mantissa(rate, drate_e) ==
    WholePart(rate, Pow2(28 - drate_e), osc_freq) - 256

baud_rate(w, rate) ==
    LET e0      == baud_rate_exponent(rate)
        m0      == baud_rate_mantissa(rate, e0)
        drate_e == IF m0 = 256 THEN e0 + 1 ELSE e0
        drate_m == IF m0 = 256 THEN 0 ELSE m0
    IN  Then(register_write(w, StrRef("MDMCFG4"), "DRATE_E[3:0]", IntVal(drate_e), 0),
             LAMBDA a : Unless(a, LAMBDA a1 :
        Then(register_write(a1.w, StrRef("MDMCFG3"), "DRATE_M[7:0]", IntVal(drate_m), 0),
             LAMBDA b : Unless(b, LAMBDA b1 : baud_rate_get(b1.w)))))

(***************************************************************************)
(* sanity_check.  part_num and component_ver are the chip's answers to the *)
(* two reads; the assert statements are those of an interpreter run        *)
(* without -O.                                                             *)
(***************************************************************************)
\* A variant that tests the part number only.
sanity_check_partnum_only(w, part_num, component_ver) ==
    Then(read_byte(w, StrRef("PARTNUM"), part_num), LAMBDA p :
    Then(read_byte(p.w, StrRef("VERSION"), component_ver), LAMBDA v :
        IF p.ret.val # 0 THEN Failed(v.w, Raise("AssertionError"))
        ELSE [w |-> v.w, ret |-> Ok([PARTNUM |-> p.ret.val, VERSION |-> v.ret.val])]))

sanity_check(w, part_num, component_ver) ==
    Then(read_byte(w, StrRef("PARTNUM"), part_num), LAMBDA p :
    Then(read_byte(p.w, StrRef("VERSION"), component_ver), LAMBDA v :
        IF p.ret.val # 0 THEN Failed(v.w, Raise("AssertionError"))
        ELSE IF v.ret.val # 20 THEN Failed(v.w, Raise("AssertionError"))
        ELSE [w |-> v.w, ret |-> Ok([PARTNUM |-> p.ret.val, VERSION |-> v.ret.val])]))

(***************************************************************************)
(* The driver on a chip: one call of one operation, from a chip whose      *)
(* configuration registers hold arbitrary bytes.  send_data is three       *)
(* actions, because it polls: its start, one turn of the wait for the      *)
(* TX-ready state, and the rest of the method.                             *)
(***************************************************************************)
\* Longest payload handed to send_data and write_burst.
MaxPayload == 2

\* Largest PKTLEN the chip is configured with.
MaxPktLen == 3

\* Most bytes asked of read_burst.
MaxBurst == 3

\* send_data's wait loop takes another turn only while the call has made
\* fewer transfers than this.
MaxWaitBus == 4

PayloadBytes == {65, 66}

Payloads == UNION {[1..n -> PayloadBytes] : n \in 0..MaxPayload}

\* What the chip may answer to a read of MARCSTATE: IDLE, 0x0D, 0x0D with
\* a bit set above the five state bits, RXFIFO_OVERFLOW, IDLE with a bit set
\* above the five state bits.
StatusBytes == {1, 13, 45, 17, 33}

\* What the chip may shift out of a FIFO.
FifoBytes == {0, 65}

DeviceAddrs == {5}

FillBytes == {0, 165, 255}

\* fill with its two lowest bits (LENGTH_CONFIG) set to m
WithLengthConfig(fill, m) == fill - (fill % 4) + m

\* fill with bit 2 (APPEND_STATUS) set to a
WithAppendStatus(fill, a) == fill - ((fill \div 4) % 2) * 4 + 4 * a

InitRegs ==
    {[x \in ConfigAddrs |->
        IF x = CCAddr["PKTCTRL0"] THEN WithLengthConfig(fill, m)
        ELSE IF x = CCAddr["PKTCTRL1"] THEN WithAppendStatus(fill, a)
        ELSE IF x = CCAddr["PKTLEN"] THEN n
        ELSE IF x = CCAddr["ADDR"] THEN d
        ELSE fill] :
     fill \in FillBytes, m \in 0..3, a \in 0..1, n \in 0..MaxPktLen, d \in DeviceAddrs}

Init ==
    /\ pc = "idle"
    /\ op = "none"
    /\ args = <<>>
    /\ ret = Raise("pending")
    /\ bus = <<>>
    /\ regs \in InitRegs
    /\ pre = regs
    /\ marcstate = NoValue
    /\ payload = <<>>
    /\ rx_data = <<>>
    /\ prev = Raise("pending")

\* A call that is one step: its transfers, the chip's registers after them
\* and its outcome.
Finish(name, a, result) ==
    \E r \in {result} :
       /\ op' = name
       /\ args' = a
       /\ bus' = r.w.bus
       /\ regs' = r.w.regs
       /\ ret' = r.ret
       /\ pc' = "done"
       /\ UNCHANGED <<pre, marcstate, payload, rx_data, prev>>

Here == World(bus, regs)

NameRefs ==
    {IntRef(6), StrRef("PKTLEN"), IntRef(245), StrRef("MARCSTATE"), IntRef(63),
     StrRef("RXFIFO"), StrRef("PKTCTRL0"), StrRef("NO_SUCH_REGISTER"), OtherRef,
     IntRef(300), StrRef("osc_freq")}

GetAddress ==
    /\ pc = "idle"
    /\ \E name \in NameRefs :
          Finish("_get_address", [name |-> name], [w |-> Here, ret |-> _get_address(name)])

WriteBytes == {0, 7, 255}

ReadByte ==
    /\ pc = "idle"
    /\ \E name \in NameRefs, chip \in StatusBytes :
          Finish("read_byte", [name |-> name], read_byte(Here, name, chip))

WriteByte ==
    /\ pc = "idle"
    /\ \E name \in NameRefs, byte \in WriteBytes :
          Finish("write_byte", [name |-> name, byte |-> byte],
                 write_byte(Here, name, byte))

ReadBurst ==
    /\ pc = "idle"
    /\ \E name \in NameRefs, length \in 0..MaxBurst :
          \E chip \in [1..length -> FifoBytes] :
             Finish("read_burst", [name |-> name, length |-> length],
                    read_burst(Here, name, length, chip))

WriteBurst ==
    /\ pc = "idle"
    /\ \E address \in NameRefs, data \in Payloads :
          Finish("write_burst", [address |-> address, data |-> data],
                 write_burst(Here, address, data))

StrobeRefs == {IntRef(CCAddr["STX"]), StrRef("SIDLE"), StrRef("SFRX"), IntRef(61),
               StrRef("NO_SUCH_STROBE"), OtherRef}

Strobe ==
    /\ pc = "idle"
    /\ \E name \in StrobeRefs :
          Finish("strobe", [name |-> name], strobe(Here, name))

\* The registers register_write is called on, with each of their fields and
\* one attribute name that is in no schema.
WriteNames == {"PKTCTRL0", "PKTCTRL1", "MDMCFG2", "MDMCFG4"}

AttrNames(name) == DOMAIN RegisterSchemaData[name] \cup {"NO_SUCH_FIELD"}

AttrBits(name, attr_name) ==
    IF attr_name \in DOMAIN RegisterSchemaData[name]
    THEN RegisterSchemaData[name][attr_name][2]
    ELSE 1

RegisterWrite ==
    /\ pc = "idle"
    /\ \E name \in WriteNames :
          \E attr_name \in AttrNames(name) :
             \E value \in IntValues(AttrBits(name, attr_name))
                          \cup StrValues(AttrBits(name, attr_name)) :
                Finish("register_write",
                       [name |-> name, attr_name |-> attr_name, value |-> value],
                       register_write(Here, StrRef(name), attr_name, value, 0))

IsReady(m) == BitAnd(m, 31) = 13

\* enable_tx(); marcstate = self.marcstate(); payload = [];
\* if len(bytes) == 0: raise ValueError
SendDataStart ==
    /\ pc = "idle"
    /\ \E bytes \in Payloads, chip \in StatusBytes :
          \E m \in {marcstate_(enable_tx(Here).w, chip)} :
              /\ op' = "send_data"
              /\ args' = [bytes |-> bytes]
              /\ bus' = m.w.bus
              /\ regs' = m.w.regs
              /\ marcstate' = m.ret.val
              /\ payload' = <<>>
              /\ IF Len(bytes) = 0
                 THEN ret' = Raise("ValueError") /\ pc' = "done"
                 ELSE ret' = ret /\ pc' = "tx_wait"
              /\ UNCHANGED <<pre, rx_data, prev>>

\* One turn of "while (marcstate & 0x1F) != 0x0D":
\* if marcstate == 0x11: flush_rx_fifo(); marcstate = self.marcstate()
SendDataWait ==
    /\ pc = "tx_wait"
    /\ ~IsReady(marcstate)
    /\ Len(bus) < MaxWaitBus
    /\ \E chip \in StatusBytes :
          \E m \in {marcstate_(IF marcstate = 17 THEN flush_rx_fifo(Here).w ELSE Here,
                                chip)} :
              /\ bus' = m.w.bus
              /\ regs' = m.w.regs
              /\ marcstate' = m.ret.val
              /\ UNCHANGED <<pc, op, args, ret, pre, payload, rx_data, prev>>

\* The loop is left: the frame is built and handed to write_burst.  What
\* follows write_burst in send_data runs only if write_burst returns.
SendDataFrame ==
    /\ pc = "tx_wait"
    /\ IsReady(marcstate)
    /\ \E f \in {BuildFrame(Here, args.bytes)} :
       \E b \in {IF f.ret.err # "none" THEN Failed(f.w, f.ret)
                 ELSE write_burst(f.w, IntRef(CCAddr["TXFIFO"]), f.payload)} :
           /\ bus' = b.w.bus
           /\ regs' = b.w.regs
           /\ payload' = f.payload
           /\ IF b.ret.err # "none"
              THEN ret' = b.ret /\ pc' = "done"
              ELSE ret' = ret /\ pc' = "tx_sent"
           /\ UNCHANGED <<op, args, pre, marcstate, rx_data, prev>>

\* What the chip may answer to a read of RXBYTES: empty, two bytes, empty
\* with the overflow bit, two bytes with the overflow bit.
RxBytesValues == {0, 2, 128, 130}

\* What the chip may shift out of the RX FIFO as a length byte.
LengthBytes == 0..(MaxPktLen + 1)

\* sidle()'s loop takes another turn only while the call has read MARCSTATE
\* fewer times than this.
MaxPolls == 2

Polls == Cardinality({i \in 1..Len(bus) : bus[i].tx[1] = CCAddr["MARCSTATE"]})

\* recv_data up to the loop of sidle().
RecvData ==
    /\ pc = "idle"
    /\ \E rxbytes \in RxBytesValues, lenbyte \in LengthBytes,
          fifo \in [1..(MaxPktLen + 1) -> FifoBytes] :
          \E r \in {RecvRead(Here, rxbytes, lenbyte, fifo)} :
              /\ op' = "recv_data"
              /\ args' = <<>>
              /\ bus' = r.w.bus
              /\ regs' = r.w.regs
              /\ rx_data' = r.data
              /\ ret' = r.ret
              /\ pc' = IF r.ret.err = "pending" THEN "sidle_wait" ELSE "done"
              /\ UNCHANGED <<pre, marcstate, payload, prev>>

\* What the caller of sidle() does when sidle() returns.
AfterSidle(w) ==
    IF op = "base_frequency" THEN base_frequency_write(w, args.value)
    ELSE IF op = "sidle" THEN [w |-> w, ret |-> Ok(RecvNone)]
    ELSE [w |-> w, ret |-> Ok(RecvList(rx_data))]

\* sidle() called on its own, up to its loop.
Sidle ==
    /\ pc = "idle"
    /\ \E s \in {strobe(Here, IntRef(CCAddr["SIDLE"]))} :
          /\ op' = "sidle"
          /\ args' = <<>>
          /\ bus' = s.w.bus
          /\ regs' = s.w.regs
          /\ pc' = "sidle_wait"
          /\ UNCHANGED <<ret, pre, marcstate, payload, rx_data, prev>>

\* One turn of sidle()'s "while (self.read_byte(self.MARCSTATE) != 0x01)" and,
\* when the loop is left, strobe(SFTX) and the caller's return.
SidlePoll ==
    /\ pc = "sidle_wait"
    /\ Polls < MaxPolls
    /\ \E chip \in StatusBytes :
          \E r \in {read_byte(Here, IntRef(CCAddr["MARCSTATE"]), chip)} :
              IF r.ret.val # 1
              THEN /\ bus' = r.w.bus
                   /\ regs' = r.w.regs
                   /\ UNCHANGED <<pc, op, args, ret, pre, marcstate, payload, rx_data, prev>>
              ELSE \E f \in {AfterSidle(strobe(r.w, IntRef(CCAddr["SFTX"])).w)} :
                   /\ bus' = f.w.bus
                   /\ regs' = f.w.regs
                   /\ ret' = f.ret
                   /\ pc' = "done"
                   /\ UNCHANGED <<op, args, pre, marcstate, payload, rx_data, prev>>

\* The arguments of the setters: every accepted value and one that is not.
ModulationArgs == Keys(Schemes) \cup {"FM"}

PacketLengthArgs == Keys(PacketModes) \cup {"PKT_LEN_NONE"}

BitArgs == 0..2

BandwidthArgs == {Bandwidths[i][1] : i \in 1..Len(Bandwidths)} \cup {60000}

FrequencyArgs == Frequencies \cup {400}

\* The bytes an int sync word is made of; two ints that do not fit 16 bits.
SyncBytes == {0, 9, 10, 15, 16, 85, 170, 250, 255}

SyncInts == {256 * h + l : h, l \in SyncBytes} \cup {65536, 129786}

SyncStrs == {<<"F", "A", "F", "A">>, <<"f", "a", "f", "a">>, <<"0", "a", "1", "B">>,
             <<"0", "0", "0", "0">>, <<"F", "A", "F">>, <<"F", "A", "F", "A", "F">>,
             <<"g", "0", "0", "0">>, <<>>}

SyncArgs == {SyncInt(n) : n \in SyncInts} \cup {SyncStr(s) : s \in SyncStrs}
                \cup {SyncOther}

Modulation ==
    /\ pc = "idle"
    /\ \E name \in ModulationArgs :
          Finish("modulation", [value |-> name], modulation(Here, name))

PacketLength ==
    /\ pc = "idle"
    /\ \E mode \in PacketLengthArgs :
          Finish("packet_length", [value |-> mode], packet_length_mode(Here, mode))

Manchester ==
    /\ pc = "idle"
    /\ \E value \in BitArgs :
          Finish("manchester", [value |-> value], manchester(Here, value))

Whitening ==
    /\ pc = "idle"
    /\ \E value \in BitArgs :
          Finish("whitening", [value |-> value], whitening(Here, value))

RxBandwidth ==
    /\ pc = "idle"
    /\ \E value \in BandwidthArgs :
          Finish("rx_bandwidth", [value |-> value], rx_bandwidth(Here, value))

SyncWord ==
    /\ pc = "idle"
    /\ \E value \in SyncArgs :
          Finish("sync_word", [value |-> value], sync_word(Here, value))

\* What the chip answers to the reads of PARTNUM and VERSION.
IdentityBytes == {0, 20, 4, 128}

SanityCheck ==
    /\ pc = "idle"
    /\ \E part_num \in IdentityBytes, component_ver \in IdentityBytes :
          Finish("sanity_check", <<>>, sanity_check(Here, part_num, component_ver))

\* Symbol rates in baud: the three common ones, and others whose exponent
\* and mantissa differ.
BaudRates == {2400, 4800, 9600, 9000, 115200}

BaudRate ==
    /\ pc = "idle"
    /\ \E rate \in BaudRates :
          Finish("baud_rate", [value |-> rate], baud_rate(Here, rate))

\* base_frequency(freq) up to the loop of sidle().
BaseFrequency ==
    /\ pc = "idle"
    /\ \E freq \in FrequencyArgs :
          /\ op' = "base_frequency"
          /\ args' = [value |-> freq]
          /\ IF freq \notin Frequencies
             THEN /\ ret' = Raise("ValueError")
                  /\ pc' = "done"
                  /\ UNCHANGED <<bus, regs>>
             ELSE \E s \in {strobe(Here, IntRef(CCAddr["SIDLE"]))} :
                  /\ bus' = s.w.bus
                  /\ regs' = s.w.regs
                  /\ ret' = ret
                  /\ pc' = "sidle_wait"
          /\ UNCHANGED <<pre, marcstate, payload, rx_data, prev>>

\* The setters whose value can be read back with the same method.
Getters == {"modulation", "packet_length", "manchester", "whitening",
            "rx_bandwidth", "sync_word", "baud_rate"}

GetOf(name, w) ==
    IF name = "modulation" THEN modulation_get(w)
    ELSE IF name = "packet_length" THEN packet_length(w)
    ELSE IF name = "manchester" THEN manchester_get(w)
    ELSE IF name = "whitening" THEN whitening_get(w)
    ELSE IF name = "rx_bandwidth" THEN rx_bandwidth_get(w)
    ELSE IF name = "baud_rate" THEN baud_rate_get(w)
    ELSE sync_word_get(w)

\* The same method called with no argument after a set that returned.
FollowingGet ==
    /\ pc = "done"
    /\ op \in Getters
    /\ ret.err = "none"
    /\ \E g \in {GetOf(op, Here)} :
          /\ bus' = g.w.bus
          /\ regs' = g.w.regs
          /\ prev' = ret
          /\ ret' = g.ret
          /\ pc' = "got"
          /\ UNCHANGED <<op, args, pre, marcstate, payload, rx_data>>

(***************************************************************************)
(* The loops past the transfers that are kept.  Neither loop of the source *)
(* counts its turns; beyond the recorded bound a turn drops the oldest     *)
(* transfers from bus, so that bus holds the latest MaxWaitBus transfers.  *)
(***************************************************************************)
Window(b) ==
    IF Len(b) > MaxWaitBus THEN SubSeq(b, Len(b) - MaxWaitBus + 1, Len(b)) ELSE b

\* A variant of the loop that gives up once MaxWaitBus transfers are made.
SendDataWaitOn_timeout ==
    /\ pc = "tx_wait"
    /\ ~IsReady(marcstate)
    /\ Len(bus) >= MaxWaitBus
    /\ ret' = Raise("Timeout")
    /\ pc' = "done"
    /\ UNCHANGED <<op, args, bus, regs, pre, marcstate, payload, rx_data, prev>>

\* A turn of send_data's wait for TX-ready after MaxWaitBus transfers.
SendDataWaitOn ==
    /\ pc = "tx_wait"
    /\ ~IsReady(marcstate)
    /\ Len(bus) >= MaxWaitBus
    /\ \E chip \in StatusBytes :
          \E m \in {marcstate_(IF marcstate = 17 THEN flush_rx_fifo(Here).w ELSE Here,
                                chip)} :
              /\ bus' = Window(m.w.bus)
              /\ regs' = m.w.regs
              /\ marcstate' = m.ret.val
              /\ UNCHANGED <<pc, op, args, ret, pre, payload, rx_data, prev>>

\* A turn of sidle()'s loop after MaxPolls polls.
SidlePollOn ==
    /\ pc = "sidle_wait"
    /\ Polls >= MaxPolls
    /\ \E chip \in StatusBytes :
          \E r \in {read_byte(Here, IntRef(CCAddr["MARCSTATE"]), chip)} :
              IF r.ret.val # 1
              THEN /\ bus' = Window(r.w.bus)
                   /\ regs' = r.w.regs
                   /\ UNCHANGED <<pc, op, args, ret, pre, marcstate, payload, rx_data, prev>>
              ELSE \E f \in {AfterSidle(strobe(r.w, IntRef(CCAddr["SFTX"])).w)} :
                   /\ bus' = Window(f.w.bus)
                   /\ regs' = f.w.regs
                   /\ ret' = f.ret
                   /\ pc' = "done"
                   /\ UNCHANGED <<op, args, pre, marcstate, payload, rx_data, prev>>

Next ==
    \/ GetAddress
    \/ ReadByte
    \/ WriteByte
    \/ ReadBurst
    \/ WriteBurst
    \/ Strobe
    \/ RegisterWrite
    \/ SendDataStart
    \/ SendDataWait
    \/ SendDataFrame
    \/ RecvData
    \/ Sidle
    \/ SidlePoll
    \/ Modulation
    \/ PacketLength
    \/ Manchester
    \/ Whitening
    \/ RxBandwidth
    \/ SyncWord
    \/ BaseFrequency
    \/ BaudRate
    \/ SanityCheck
    \/ FollowingGet

Spec == Init /\ [][Next]_vars

(***************************************************************************)
(* send_data and sidle() with their loops unbounded.  The driver is one    *)
(* thread that runs each statement it reaches: a turn of a loop that can   *)
(* be taken is taken, and so is the step after the loop.  Nothing is       *)
(* assumed of the chip's answers.  Neither loop reads a configuration      *)
(* register, so the calls start from the registers filled with 0x00, with  *)
(* each LENGTH_CONFIG.                                                      *)
(***************************************************************************)
InitLive ==
    /\ Init
    /\ regs[CCAddr["CHANNR"]] = 0
    /\ regs[CCAddr["PKTCTRL1"]] = 0
    /\ regs[CCAddr["PKTLEN"]] = 1

NextLive ==
    \/ SendDataStart
    \/ SendDataWait
    \/ SendDataWaitOn
    \/ SendDataFrame
    \/ Sidle
    \/ SidlePoll
    \/ SidlePollOn

SpecLive ==
    /\ InitLive
    /\ [][NextLive]_vars
    /\ WF_vars(SendDataWait \/ SendDataWaitOn)
    /\ WF_vars(SendDataFrame)
    /\ WF_vars(SidlePoll \/ SidlePollOn)

(***************************************************************************)
(* Properties of the driver.                                               *)
(***************************************************************************)
\* The address a resolvable name argument stands for.
Resolvable(name) ==
    name.kind = "int" \/ (name.kind = "str" /\ name.s \in DOMAIN CCAddr)

AddrOf(name) == IF name.kind = "int" THEN name.n ELSE CCAddr[name.s]

RegisterWriteDone == op = "register_write" /\ pc = "done" /\ ret.err = "none"

\* What C5 says of a completed register_write(name, attr_name, value).
RegisterWriteEffect ==
    LET a      == CCAddr[args.name]
        schema == RegisterSchemaData[args.name][args.attr_name]
    IN  /\ FieldOf(regs[a], schema) = NumOf(args.value)
        /\ OutsideOf(regs[a], schema) = OutsideOf(pre[a], schema)
        /\ \A x \in ConfigAddrs \ {a} : regs[x] = pre[x]
        /\ Len(bus) = 2
        /\ bus[1].tx = <<READ_SINGLE_BYTE + a, 0>>
        /\ bus[2].tx = <<WRITE_SINGLE_BYTE + a, regs[a]>>

\* C5: register_write is a read-modify-write that disturbs nothing else:
\* after it completes the named field holds value, every other bit of the
\* register is what the chip held before the call, no other register is
\* written, and the call's transfers are one single-byte read followed by one
\* single-byte write of that register.
C5_RegisterWriteDisturbsNothingElse == RegisterWriteDone => RegisterWriteEffect

\* The same for the values that fit the field.
RegisterWriteOfFittingValue ==
    (RegisterWriteDone
        /\ Fits(args.value, RegisterSchemaData[args.name][args.attr_name][2]))
    => RegisterWriteEffect

SendDataEnded == op = "send_data" /\ pc \in {"done", "tx_sent"}

\* C6: send_data with an empty payload fails with ValueError as its first
\* step: before the STX strobe, before any MARCSTATE poll and before any
\* other transfer, so the chip is unchanged by the failed call.
C6_EmptyPayloadFailsFirst ==
    (SendDataEnded /\ args.bytes = <<>>)
    => (ret = Raise("ValueError") /\ bus = <<>> /\ regs = pre)

\* The transfers of the call that are burst writes to the TX FIFO.
TxFifoWrites ==
    {i \in DOMAIN bus : Len(bus[i].tx) >= 1
                        /\ bus[i].tx[1] = WRITE_BURST + CCAddr["TXFIFO"]}

LengthConfig == pre[CCAddr["PKTCTRL0"]] % 4

AppendStatus == (pre[CCAddr["PKTCTRL1"]] \div 4) % 2 = 1

PktLen == pre[CCAddr["PKTLEN"]]

\* The optional device-address byte, then the payload.
AddressedPayload ==
    (IF AppendStatus THEN <<pre[CCAddr["ADDR"]]>> ELSE <<>>) \o args.bytes

\* C7: in FIXED mode, for every non-empty payload, every PKTLEN and both
\* settings of APPEND_STATUS, send_data either fails with ValueError
\* ("Payload too big.") without writing anything to the TX FIFO, or
\* burst-writes a frame of exactly PKTLEN bytes: the optional address byte,
\* the payload, zero padding.  No longer or shorter frame is written.
C7_FixedFrameIsExactlyPktLen ==
    (SendDataEnded /\ args.bytes # <<>> /\ LengthConfig = 0)
    => \/ ret = Raise("ValueError") /\ TxFifoWrites = {}
       \/ /\ Cardinality(TxFifoWrites) = 1
          /\ \A i \in TxFifoWrites :
                /\ Len(bus[i].tx) = 1 + PktLen
                /\ Len(AddressedPayload) <= PktLen
                /\ bus[i].tx = <<WRITE_BURST + CCAddr["TXFIFO"]>> \o AddressedPayload
                                   \o Zeros(PktLen - Len(AddressedPayload))

\* The frame send_data hands to write_burst in FIXED mode is one byte longer
\* than PKTLEN when the payload fills PKTLEN and APPEND_STATUS is set.
FixedFrameOverlong ==
    /\ SendDataEnded
    /\ LengthConfig = 0
    /\ AppendStatus
    /\ Len(args.bytes) = PktLen
    /\ Len(payload) = PktLen + 1

\* The frame C8 expects in VARIABLE mode.
VariableFrameExpected ==
    IF AppendStatus
    THEN <<Len(args.bytes) + 1, pre[CCAddr["ADDR"]]>> \o args.bytes
    ELSE <<Len(args.bytes)>> \o args.bytes

\* C8: in VARIABLE mode, once the chip has reported TX-ready, send_data of a
\* non-empty payload writes [len(payload)] ++ payload to the TX FIFO when
\* APPEND_STATUS is clear and [len(payload) + 1, address] ++ payload when it
\* is set, as a single burst-write transfer.
C8_VariableFrameWritten ==
    (SendDataEnded /\ args.bytes # <<>> /\ LengthConfig = 1)
    => /\ Cardinality(TxFifoWrites) = 1
       /\ \A i \in TxFifoWrites :
             bus[i].tx = <<WRITE_BURST + CCAddr["TXFIFO"]>> \o VariableFrameExpected

\* The frame send_data builds in VARIABLE mode, and hands to write_burst, is
\* the expected one.
VariableFrameBuilt ==
    (SendDataEnded /\ args.bytes # <<>> /\ LengthConfig = 1)
    => payload = VariableFrameExpected

\* x | 0x40, in arithmetic.
WithWriteBurstBit(x) == IF (x \div WRITE_BURST) % 2 = 1 THEN x ELSE x + WRITE_BURST

\* C9: write_burst(ref, data) succeeds for every resolvable address and
\* every byte list: it makes exactly one transfer, [WRITE_BURST | addr]
\* followed by data in order.
C9_WriteBurstIsOneTransfer ==
    (op = "write_burst" /\ pc = "done" /\ Resolvable(args.address))
    => /\ ret.err = "none"
       /\ Len(bus) = 1
       /\ bus[1].tx = <<WithWriteBurstBit(AddrOf(args.address))>> \o args.data

\* x | 0xC0, in arithmetic.
WithBurstBits(x) == x - ((x \div 64) % 4) * 64 + READ_BURST

ReadBurstDone == op = "read_burst" /\ pc = "done" /\ Resolvable(args.name)

\* C10: read_burst(ref, length) returns exactly length bytes for every
\* length >= 0: it makes one transfer whose k-th request byte, k = 0..length,
\* is (addr + 8*k) | READ_BURST, and returns the answer without its first
\* byte.
C10_ReadBurstReturnsLengthBytes ==
    ReadBurstDone
    => /\ Len(bus) = 1
       /\ Len(bus[1].tx) = args.length + 1
       /\ \A k \in 0..args.length :
             bus[1].tx[k + 1] = WithBurstBits(AddrOf(args.name) + 8 * k)
       /\ ret.err = "none"
       /\ Len(ret.val) = args.length
       /\ \A k \in 1..args.length : ret.val[k] = bus[1].rx[k + 1]

\* read_burst(0x3F, 3) asks 0xFF, 0xC7, 0xCF, 0xD7 and returns three bytes.
C10_Witness ==
    /\ ReadBurstDone
    /\ args.name = IntRef(63)
    /\ args.length = 3
    /\ bus[1].tx = <<255, 199, 207, 215>>
    /\ ret = Ok(<<65, 0, 65>>)
(***************************************************************************)
(* Address resolution.                                                     *)
(***************************************************************************)
AddressOps == {"read_byte", "write_byte", "strobe", "read_burst"}

GetAddressDone == op = "_get_address" /\ pc = "done"

\* C11: _get_address is consistent and validating: an int in 0..255
\* resolves to itself, a name of the address table resolves to its entry,
\* an int outside 0..255 fails, a name that is not in the address table
\* fails, a reference that is neither int nor str fails; and so no read_byte,
\* write_byte, strobe or read_burst puts an address byte outside 0..255 on
\* the bus.
C11_GetAddressValidates ==
    /\ GetAddressDone =>
          /\ (args.name.kind = "int" /\ args.name.n \in 0..255)
                => ret = Ok(args.name.n)
          /\ (args.name.kind = "str" /\ args.name.s \in DOMAIN CCAddr)
                => ret = Ok(CCAddr[args.name.s])
          /\ (args.name.kind = "int" /\ args.name.n \notin 0..255)
                => ret.err # "none"
          /\ (args.name.kind = "str" /\ args.name.s \notin DOMAIN CCAddr)
                => ret.err # "none"
          /\ args.name.kind = "other" => ret.err # "none"
    /\ (op \in AddressOps /\ pc = "done") =>
          \A i \in 1..Len(bus) : \A j \in 1..Len(bus[i].tx) : bus[i].tx[j] \in 0..255

\* What does hold of _get_address: an int resolves to itself whatever its
\* size, a name of the address table to its entry, and any other type raises
\* ValueError.
GetAddressOfValidReference ==
    GetAddressDone =>
        /\ args.name.kind = "int" => ret = Ok(args.name.n)
        /\ (args.name.kind = "str" /\ args.name.s \in DOMAIN CCAddr)
              => ret = Ok(CCAddr[args.name.s])
        /\ args.name.kind = "other" => ret = Raise("ValueError")

(***************************************************************************)
(* recv_data.  Its transfers are, in order: the SRX strobe, the read of    *)
(* RXBYTES, the read of PKTCTRL0, the read of PKTLEN, in VARIABLE mode the *)
(* read of the length byte from the RX FIFO, the burst read, the SFRX      *)
(* strobe, the SIDLE strobe, the reads of MARCSTATE and the SFTX strobe.   *)
(***************************************************************************)
RecvDataEnded == op = "recv_data" /\ pc = "done"

RecvReturned(v) == RecvDataEnded /\ ret.err = "none" /\ ret.val = v

RecvReturnedList == RecvDataEnded /\ ret.err = "none" /\ ret.val.type = "list"

\* The byte the chip answered to the read of RXBYTES.
RxBytesSeen == bus[2].rx[2]

RxEmptyOrOverflow == RxBytesSeen % 128 = 0 \/ (RxBytesSeen \div 128) % 2 = 1

RecvMode == pre[CCAddr["PKTCTRL0"]] % 4

IsRxFifoBurst(t) == t.tx[1] = READ_BURST + CCAddr["RXFIFO"]

TxOf(b) == [i \in 1..Len(b) |-> b[i].tx]

\* C12: recv_data in VARIABLE mode, when RXBYTES shows a count that is not
\* zero with the overflow bit clear: if the length byte read from the RX FIFO
\* is greater than PKTLEN, recv_data returns False and makes no burst read of
\* the RX FIFO; if it is at most PKTLEN, recv_data does not return False.
C12_RecvRejectsOverlongLength ==
    (op = "recv_data" /\ RecvMode = 1 /\ ~RxEmptyOrOverflow) =>
        /\ Len(bus) >= 5
        /\ bus[5].tx = <<READ_SINGLE_BYTE + CCAddr["RXFIFO"], 0>>
        /\ bus[5].rx[2] > pre[CCAddr["PKTLEN"]] =>
              /\ RecvReturned(RecvFalse)
              /\ \A i \in 1..Len(bus) : ~IsRxFifoBurst(bus[i])
        /\ bus[5].rx[2] <= pre[CCAddr["PKTLEN"]] => ~RecvReturned(RecvFalse)

C12_Witness ==
    /\ RecvReturned(RecvFalse)
    /\ RecvMode = 1
    /\ RxBytesSeen = 2
    /\ pre[CCAddr["PKTLEN"]] = 2
    /\ bus[5].rx[2] = 3
    /\ Len(bus) = 5

\* A length byte within PKTLEN: the call goes on to the burst read.
C12_WitnessInBound ==
    /\ RecvReturnedList
    /\ RecvMode = 1
    /\ pre[CCAddr["PKTLEN"]] = 2
    /\ bus[5].rx[2] = 2
    /\ IsRxFifoBurst(bus[6])

\* C13: recv_data returns None exactly when the byte read from RXBYTES has a
\* zero count (low 7 bits) or the overflow bit (bit 7) set, and then the
\* call's only transfers are the SRX strobe and the read of RXBYTES.
C13_RecvNoneIffNothingToRead ==
    RecvDataEnded =>
        /\ RecvReturned(RecvNone) <=> RxEmptyOrOverflow
        /\ RxEmptyOrOverflow =>
              TxOf(bus) = << <<CCAddr["SRX"], 0>>, <<CCAddr["RXBYTES"], 0>> >>

C13_Witness ==
    /\ RecvReturned(RecvNone)
    /\ RxBytesSeen = 130
    /\ Len(bus) = 2

\* The index in bus of the burst read of a call that returned a list.
BurstAt == IF RecvMode = 1 THEN 6 ELSE 5

ExpectedLength == IF RecvMode = 1 THEN bus[5].rx[2] ELSE pre[CCAddr["PKTLEN"]]

IsMarcstateRead(t) == t.tx = <<CCAddr["MARCSTATE"], 0>>

\* The index in bus of the last read of MARCSTATE.
LastPoll == CHOOSE i \in 1..Len(bus) :
                /\ IsMarcstateRead(bus[i])
                /\ \A j \in (i + 1)..Len(bus) : ~IsMarcstateRead(bus[j])

\* C14: a recv_data that returns the payload (data available, no overflow,
\* FIXED mode or a VARIABLE length within PKTLEN) returns exactly as many
\* bytes as expected (PKTLEN in FIXED mode, the RX FIFO's leading length byte
\* in VARIABLE mode), and its transfers are, in this order, the burst read of
\* the RX FIFO, the SFRX strobe, the SIDLE strobe and reads of MARCSTATE up
\* to the first that shows IDLE; the last MARCSTATE the call saw is IDLE.
C14_RecvReadsFlushesIdles ==
    RecvReturnedList =>
        /\ Len(ret.val.list) = ExpectedLength
        /\ IsRxFifoBurst(bus[BurstAt])
        /\ Len(bus[BurstAt].tx) = ExpectedLength + 1
        /\ ret.val.list = Tail(bus[BurstAt].rx)
        /\ bus[BurstAt + 1].tx = <<CCAddr["SFRX"], 0>>
        /\ bus[BurstAt + 2].tx = <<CCAddr["SIDLE"], 0>>
        /\ LastPoll >= BurstAt + 3
        /\ \A i \in (BurstAt + 3)..LastPoll : IsMarcstateRead(bus[i])
        /\ \A i \in (BurstAt + 3)..(LastPoll - 1) : bus[i].rx[2] # 1
        /\ bus[LastPoll].rx[2] = 1
        /\ \A i \in 1..(BurstAt - 1) : ~IsRxFifoBurst(bus[i])

C14_Witness ==
    /\ RecvReturnedList
    /\ RecvMode = 1
    /\ ret.val.list = <<65, 0>>
    /\ bus[6].tx = <<255, 199, 207>>
    /\ Len(bus) = 11
    /\ bus[9].rx[2] = 13
    /\ bus[10].rx[2] = 1

C14_WitnessFixed ==
    /\ RecvReturnedList
    /\ RecvMode = 0
    /\ pre[CCAddr["PKTLEN"]] = 3
    /\ Len(ret.val.list) = 3

(***************************************************************************)
(* send_data after the frame is built.                                     *)
(***************************************************************************)
\* send_data built a frame from its payload and called write_burst with it.
FrameHandedOver == op = "send_data" /\ pc \in {"done", "tx_sent"} /\ payload # <<>>

IsTxBytesRead(t) == t.tx = <<CCAddr["TXBYTES"], 0>>

\* The states send_data accepts after the second STX strobe.
AcceptedTxStates == {19, 20, 21}

\* The index in bus of the burst write of the frame, 0 when there is none.
FrameAt == IF TxFifoWrites = {} THEN 0 ELSE CHOOSE i \in TxFifoWrites : TRUE

\* C15: a send_data that hands its frame to the TX FIFO ends by returning a
\* bool that the last read of TXBYTES decides, and it returns True only when
\* that read shows the TXFIFO_UNDERFLOW flag (bit 7, apart from the 7-bit
\* byte count) clear: whenever the flag is set at the final read, send_data
\* returns False.
C15_TrueOnlyWithoutUnderflow ==
    FrameHandedOver =>
        /\ pc = "done"
        /\ ret.err = "none"
        /\ ret.val \in BOOLEAN
        /\ ret.val = TRUE =>
              /\ IsTxBytesRead(bus[Len(bus)])
              /\ (bus[Len(bus)].rx[2] \div 128) % 2 = 0

\* C16: when the MARCSTATE polled after the burst write of the frame and the
\* second STX strobe is none of the three accepted states, send_data returns
\* False after issuing, in order, SIDLE with polling to IDLE, the SFTX flush
\* and SRX: the call's last strobe is SRX and TXBYTES is never read.
C16_TransmitFailurePath ==
    FrameHandedOver =>
        /\ FrameAt # 0
        /\ Len(bus) >= FrameAt + 2
        /\ bus[FrameAt + 1].tx = <<CCAddr["STX"], 0>>
        /\ IsMarcstateRead(bus[FrameAt + 2])
        /\ (bus[FrameAt + 2].rx[2] % 32) \notin AcceptedTxStates =>
              /\ pc = "done" /\ ret.err = "none" /\ ret.val = FALSE
              /\ Len(bus) >= FrameAt + 6
              /\ bus[FrameAt + 3].tx = <<CCAddr["SIDLE"], 0>>
              /\ bus[Len(bus) - 1].tx = <<CCAddr["SFTX"], 0>>
              /\ bus[Len(bus)].tx = <<CCAddr["SRX"], 0>>
              /\ \A i \in 1..Len(bus) : ~IsTxBytesRead(bus[i])

(***************************************************************************)
(* The setters.                                                            *)
(***************************************************************************)
SetterCalled(name) == op = name /\ pc # "idle"

RejectedUntouched ==
    /\ pc = "done"
    /\ ret = Raise("ValueError")
    /\ bus = <<>>
    /\ regs = pre

\* C17: a setter's validation leaves the chip untouched: base_frequency with
\* a value outside {315, 433, 868, 915}, modulation with a name outside its
\* schemes, packet_length with a name outside its modes and rx_bandwidth with
\* a value outside its six bandwidths each raise ValueError before any
\* transfer: no strobe, no register read, no register write.
C17_RejectedSetterTouchesNothing ==
    /\ (SetterCalled("base_frequency") /\ args.value \notin {315, 433, 868, 915})
          => RejectedUntouched
    /\ (SetterCalled("modulation")
          /\ args.value \notin {"2-FSK", "GFSK", "ASK", "OOK", "4-FSK", "MSK"})
          => RejectedUntouched
    /\ (SetterCalled("packet_length")
          /\ args.value \notin {"PKT_LEN_FIXED", "PKT_LEN_VARIABLE", "PKT_LEN_INFINITE"})
          => RejectedUntouched
    /\ (SetterCalled("rx_bandwidth")
          /\ args.value \notin {58000, 100000, 232000, 325000, 540000, 812000})
          => RejectedUntouched

C17_Witness ==
    /\ op = "modulation"
    /\ args.value = "FM"
    /\ RejectedUntouched

C17_WitnessFrequency == op = "base_frequency" /\ args.value = 400 /\ RejectedUntouched

C17_WitnessPacketLength ==
    op = "packet_length" /\ args.value = "PKT_LEN_NONE" /\ RejectedUntouched

C17_WitnessBandwidth == op = "rx_bandwidth" /\ args.value = 60000 /\ RejectedUntouched

\* The bits of byte b outside the field of `bits` bits whose most significant
\* bit is bit number `top` (bit 0 the least significant).
Masked(b, top, bits) ==
    b - ((b \div Pow2(top + 1 - bits)) % Pow2(bits)) * Pow2(top + 1 - bits)

FieldAt(b, top, bits) == (b \div Pow2(top + 1 - bits)) % Pow2(bits)

\* Register a's field holds v, its other bits and every other register are as
\* before the call.
OnlyFieldSet(a, top, bits, v) ==
    /\ FieldAt(regs[a], top, bits) = v
    /\ Masked(regs[a], top, bits) = Masked(pre[a], top, bits)
    /\ \A x \in ConfigAddrs \ {a} : regs[x] = pre[x]

\* The 3-bit code of each modulation name.
ModulationCode ==
    "2-FSK" :> 0 @@ "GFSK" :> 1 @@ "ASK" :> 3 @@ "OOK" :> 3 @@ "4-FSK" :> 4 @@ "MSK" :> 7

\* C18: modulation is a two-way map: for every accepted name m (2-FSK, GFSK,
\* ASK, OOK, 4-FSK, MSK), modulation(m) writes m's 3-bit code into
\* MOD_FORMAT (bits 6..4 of MDMCFG2), leaves the rest of MDMCFG2 unchanged,
\* and returns m; a following modulation() returns m too.
C18_ModulationRoundTrip ==
    (SetterCalled("modulation") /\ args.value \in DOMAIN ModulationCode) =>
        /\ pc \in {"done", "got"}
        /\ ret = Ok(args.value)
        /\ OnlyFieldSet(CCAddr["MDMCFG2"], 6, 3, ModulationCode[args.value])
        /\ pc = "got" => prev = Ok(args.value)

\* What does hold: the code is written as C18 says, and the name read back is
\* the first name of the dict with that code: "ASK" for "OOK".
ModulationReadsBackFirstName ==
    (SetterCalled("modulation") /\ args.value \in DOMAIN ModulationCode) =>
        /\ pc \in {"done", "got"}
        /\ ret = Ok(IF args.value = "OOK" THEN "ASK" ELSE args.value)
        /\ OnlyFieldSet(CCAddr["MDMCFG2"], 6, 3, ModulationCode[args.value])
        /\ pc = "got" => prev = ret

ModulationOokReadsAsk ==
    op = "modulation" /\ pc = "got" /\ args.value = "OOK" /\ ret = Ok("ASK")

\* C19: set then get of the single-field parameters: from any register state
\* packet_length(m) for m PKT_LEN_FIXED or PKT_LEN_VARIABLE returns m,
\* manchester(v) and whitening(v) for v 0 or 1 return v, a following get
\* returns the same, and each set changes only its own field: LENGTH_CONFIG
\* (bits 1..0) or WHITE_DATA (bit 6) of PKTCTRL0, MANCHESTER_EN (bit 3) of
\* MDMCFG2.
C19_SingleFieldRoundTrip ==
    /\ (SetterCalled("packet_length")
          /\ args.value \in {"PKT_LEN_FIXED", "PKT_LEN_VARIABLE"}) =>
            /\ pc \in {"done", "got"}
            /\ ret = Ok(args.value)
            /\ OnlyFieldSet(CCAddr["PKTCTRL0"], 1, 2,
                            IF args.value = "PKT_LEN_FIXED" THEN 0 ELSE 1)
            /\ pc = "got" => prev = Ok(args.value)
    /\ (SetterCalled("manchester") /\ args.value \in {0, 1}) =>
            /\ pc \in {"done", "got"}
            /\ ret = Ok(args.value)
            /\ OnlyFieldSet(CCAddr["MDMCFG2"], 3, 1, args.value)
            /\ pc = "got" => prev = Ok(args.value)
    /\ (SetterCalled("whitening") /\ args.value \in {0, 1}) =>
            /\ pc \in {"done", "got"}
            /\ ret = Ok(args.value)
            /\ OnlyFieldSet(CCAddr["PKTCTRL0"], 6, 1, args.value)
            /\ pc = "got" => prev = Ok(args.value)

C19_Witness ==
    /\ op = "whitening" /\ pc = "got"
    /\ args.value = 1
    /\ pre[CCAddr["PKTCTRL0"]] = 165
    /\ regs[CCAddr["PKTCTRL0"]] = 229
    /\ ret = Ok(1)

C19_WitnessPacketLength ==
    /\ op = "packet_length" /\ pc = "got"
    /\ args.value = "PKT_LEN_VARIABLE"
    /\ pre[CCAddr["PKTCTRL0"]] = 255
    /\ regs[CCAddr["PKTCTRL0"]] = 253

C19_WitnessManchester ==
    /\ op = "manchester" /\ pc = "got"
    /\ args.value = 0
    /\ pre[CCAddr["MDMCFG2"]] = 255
    /\ regs[CCAddr["MDMCFG2"]] = 247

\* The four hexadecimal digits of v, upper case.
FourHex(v) ==
    <<UpperHex[((v \div 4096) % 16) + 1], UpperHex[((v \div 256) % 16) + 1],
      UpperHex[((v \div 16) % 16) + 1], UpperHex[(v % 16) + 1]>>

\* A string of four hexadecimal digits of either case.
IsFourHex(s) == Len(s) = 4 /\ \A i \in 1..4 : HexValue(s[i]) # -1

\* The same string in upper case.
Uppercased(s) == [i \in 1..Len(s) |-> UpperHex[HexValue(s[i]) + 1]]

\* The transfers of the call that write SYNC1 or SYNC0.
SyncWrites ==
    {i \in 1..Len(bus) : bus[i].tx[1] \in {WRITE_SINGLE_BYTE + CCAddr["SYNC1"],
                                           WRITE_SINGLE_BYTE + CCAddr["SYNC0"]}}

SyncWordCalled == op = "sync_word" /\ pc # "idle"

\* C20: the sync word round trip: for every int v in 0..0xFFFF, sync_word(v)
\* writes v >> 8 to SYNC1 and v & 0xFF to SYNC0 and returns the four
\* upper-case, zero-padded hexadecimal digits of v; for every string s of four
\* hexadecimal digits of either case, sync_word(s) returns s in upper case; a
\* value that does not fit in 16 bits, or a string whose length is not 4,
\* fails and writes neither SYNC1 nor SYNC0.
C20_SyncWordRoundTrip ==
    /\ (SyncWordCalled /\ args.value.kind = "int" /\ args.value.n \in 0..65535) =>
          /\ ret = Ok(FourHex(args.value.n))
          /\ regs[CCAddr["SYNC1"]] = args.value.n \div 256
          /\ regs[CCAddr["SYNC0"]] = args.value.n % 256
          /\ \E i, j \in SyncWrites :
                /\ bus[i].tx = <<WRITE_SINGLE_BYTE + CCAddr["SYNC1"], args.value.n \div 256>>
                /\ bus[j].tx = <<WRITE_SINGLE_BYTE + CCAddr["SYNC0"], args.value.n % 256>>
                /\ SyncWrites = {i, j}
    /\ (SyncWordCalled /\ args.value.kind = "str" /\ IsFourHex(args.value.s)) =>
          ret = Ok(Uppercased(args.value.s))
    /\ (SyncWordCalled
          /\ \/ args.value.kind = "int" /\ args.value.n > 65535
             \/ args.value.kind = "str" /\ Len(args.value.s) # 4) =>
          /\ pc = "done"
          /\ ret.err # "none"
          /\ SyncWrites = {}
          /\ regs = pre

C20_Witness ==
    /\ op = "sync_word" /\ pc = "got"
    /\ args.value = SyncInt(43605)
    /\ ret = Ok(<<"A", "A", "5", "5">>)
    /\ pre[CCAddr["SYNC1"]] = 255
    /\ regs[CCAddr["SYNC1"]] = 170
    /\ regs[CCAddr["SYNC0"]] = 85

C20_WitnessString ==
    /\ op = "sync_word" /\ pc = "done"
    /\ args.value = SyncStr(<<"0", "a", "1", "B">>)
    /\ ret = Ok(<<"0", "A", "1", "B">>)
    /\ regs[CCAddr["SYNC1"]] = 10
    /\ regs[CCAddr["SYNC0"]] = 27

C20_WitnessTooWide ==
    /\ op = "sync_word" /\ pc = "done"
    /\ args.value = SyncInt(65536)
    /\ ret = Raise("ValueError")
    /\ Len(bus) = 1

C20_WitnessShortString ==
    /\ op = "sync_word" /\ pc = "done"
    /\ args.value = SyncStr(<<"F", "A", "F">>)
    /\ ret = Raise("ValueError")
    /\ bus = <<>>

(***************************************************************************)
(* The numerical setters.  Fosc is osc_freq, 26 MHz.                       *)
(***************************************************************************)
FoscMHz == osc_freq \div 1000000

\* round(0x10000 * f * 10^6 / Fosc) for f in MHz
RoundedWord(f) == (2 * 65536 * f + FoscMHz) \div (2 * FoscMHz)

\* The 24-bit word in FREQ2, FREQ1, FREQ0.
FreqWord(r) == r[CCAddr["FREQ2"]] * 65536 + r[CCAddr["FREQ1"]] * 256 + r[CCAddr["FREQ0"]]

Abs(x) == IF x < 0 THEN -x ELSE x

BaseFrequencyReturned ==
    op = "base_frequency" /\ pc = "done" /\ args.value \in {315, 433, 868, 915}

\* C21: the frequency round trip: for each carrier f in {315, 433, 868, 915}
\* MHz at Fosc = 26 MHz, from any register state, base_frequency(f) writes
\* the word round(0x10000 * f * 10^6 / Fosc) into FREQ2, FREQ1, FREQ0 (high,
\* middle, low byte), and the value it returns, in Hz, differs from
\* f * 10^6 Hz by at most Fosc / 2^16.  The value returned is
\* times * Fosc / 2^18, so the difference is within the unit exactly when
\* |FoscMHz * times - f * 2^18| <= 4 * FoscMHz.
C21_FrequencyRoundTrip ==
    BaseFrequencyReturned =>
        /\ ret.err = "none"
        /\ FreqWord(regs) = RoundedWord(args.value)
        /\ Abs(FoscMHz * ret.val.times - args.value * 262144) <= 4 * FoscMHz

\* What does hold: the word written is the quotient cut off, not rounded,
\* every other register is left alone, and the value returned is the word
\* read back plus the channel offset CHAN * (256 + CHANSPC_M) * 2^CHANSPC_E / 4
\* with CHANSPC_E read as the single bit 1 of MDMCFG1.
BaseFrequencyWritesTruncatedWord ==
    BaseFrequencyReturned =>
        /\ ret.err = "none"
        /\ FreqWord(regs) = (65536 * args.value) \div FoscMHz
        /\ \A x \in ConfigAddrs \ {CCAddr["FREQ2"], CCAddr["FREQ1"], CCAddr["FREQ0"]} :
              regs[x] = pre[x]
        /\ ret.val.times = 4 * FreqWord(regs)
                           + pre[CCAddr["CHANNR"]] * (256 + pre[CCAddr["MDMCFG0"]])
                               * Pow2((pre[CCAddr["MDMCFG1"]] \div 2) % 2)

\* With channel 0 a frequency whose quotient rounds down reads back within
\* the unit.
BaseFrequencyOnChannelZero ==
    (BaseFrequencyReturned /\ pre[CCAddr["CHANNR"]] = 0) =>
        Abs(FoscMHz * ret.val.times - args.value * 262144) <= 4 * FoscMHz

\* base_frequency(315) on channel 0 writes 0x0C1D89, one less than the
\* rounded word 0x0C1D8A.
BaseFrequency315Truncated ==
    /\ BaseFrequencyReturned
    /\ args.value = 315
    /\ pre[CCAddr["CHANNR"]] = 0
    /\ FreqWord(regs) = 793993
    /\ RoundedWord(315) = 793994

CommonRates == {2400, 4800, 9600}

\* Fosc = 2^7 * FoscOdd
FoscOdd == osc_freq \div 128

\* floor(log2(r * 2^20 / Fosc))
ClaimedExponent(r) ==
    CHOOSE e \in 0..15 : /\ Pow2(e) * FoscOdd <= r * 8192
                         /\ r * 8192 < Pow2(e + 1) * FoscOdd

\* round(r * 2^28 / (Fosc * 2^e)) - 256
ClaimedMantissa(r, e) == ((2 * r * Pow2(21 - e) + FoscOdd) \div (2 * FoscOdd)) - 256

\* The pair with the mantissa-overflow carry applied.
ClaimedRate(r) ==
    LET e == ClaimedExponent(r)
        m == ClaimedMantissa(r, e)
    IN  IF m = 256 THEN [e |-> e + 1, m |-> 0] ELSE [e |-> e, m |-> m]

BaudRateReturned == op = "baud_rate" /\ pc = "done" /\ args.value \in CommonRates

\* C22: the baud-rate round trip: for r in {2400, 4800, 9600} baud at
\* Fosc = 26 MHz, baud_rate(r) writes DRATE_E = floor(log2(r * 2^20 / Fosc))
\* into the low four bits of MDMCFG4 and
\* DRATE_M = round(r * 2^28 / (Fosc * 2^DRATE_E)) - 256 into MDMCFG3 (with
\* the carry DRATE_M = 256 -> 0, DRATE_E + 1), both fit their fields, the
\* channel-bandwidth bits of MDMCFG4 keep their values, and the value
\* returned differs from r by at most one mantissa step Fosc * 2^DRATE_E / 2^28.
C22_BaudRateRoundTrip ==
    BaudRateReturned =>
        LET c == ClaimedRate(args.value)
        IN  /\ ret.err = "none"
            /\ c.e \in 0..15 /\ c.m \in 0..255
            /\ regs[CCAddr["MDMCFG4"]] % 16 = c.e
            /\ regs[CCAddr["MDMCFG3"]] = c.m
            /\ regs[CCAddr["MDMCFG4"]] \div 16 = pre[CCAddr["MDMCFG4"]] \div 16
            /\ \A x \in ConfigAddrs \ {CCAddr["MDMCFG4"], CCAddr["MDMCFG3"]} :
                  regs[x] = pre[x]
            /\ Abs(ret.val - args.value) * Pow2(21 - c.e) <= FoscOdd

\* baud_rate(2400) on registers filled with 0xA5 leaves 0xA6 in MDMCFG4 and
\* 0x83 in MDMCFG3 and returns 2398.
C22_Witness ==
    /\ BaudRateReturned
    /\ args.value = 2400
    /\ pre[CCAddr["MDMCFG4"]] = 165
    /\ regs[CCAddr["MDMCFG4"]] = 166
    /\ regs[CCAddr["MDMCFG3"]] = 131
    /\ ret = Ok(2398)

C22_Witness9600 ==
    /\ BaudRateReturned
    /\ args.value = 9600
    /\ regs[CCAddr["MDMCFG4"]] % 16 = 8
    /\ ret = Ok(9595)

\* A following baud_rate() returns what the set returned.
BaudRateReadsBackTheSame ==
    (op = "baud_rate" /\ pc = "got") => ret = prev

\* Outside the three rates the mantissa is cut off, not rounded:
\* baud_rate(9000) writes 362 - 256 where the quotient is 362.96.
BaudRate9000Truncated ==
    /\ op = "baud_rate" /\ pc = "done" /\ args.value = 9000
    /\ regs[CCAddr["MDMCFG3"]] = 362 - 256
    /\ ClaimedMantissa(9000, 8) = 363 - 256

SanityCheckEnded == op = "sanity_check" /\ pc = "done"

\* C23: the identity check: sanity_check fails if and only if the PARTNUM
\* register reads other than 0x00 or the VERSION register reads other than
\* 0x14; it makes only the single-byte reads of those two status registers,
\* and writes and strobes nothing.
C23_SanityCheckFailsIffMismatch ==
    SanityCheckEnded =>
        /\ Len(bus) = 2
        /\ bus[1].tx = <<BitOr(READ_SINGLE_BYTE, CCAddr["PARTNUM"]), 0>>
        /\ bus[2].tx = <<BitOr(READ_SINGLE_BYTE, CCAddr["VERSION"]), 0>>
        /\ regs = pre
        /\ ret.err \in {"none", "AssertionError"}
        /\ ret.err = "AssertionError" <=> (bus[1].rx[2] # 0 \/ bus[2].rx[2] # 20)

\* PARTNUM reads 0x00 and VERSION reads 0x04: the check fails.
C23_Witness ==
    /\ SanityCheckEnded
    /\ bus[1].rx[2] = 0
    /\ bus[2].rx[2] = 4
    /\ ret.err = "AssertionError"

\* PARTNUM 0x00 and VERSION 0x14: the check returns both.
C23_WitnessPass ==
    /\ SanityCheckEnded
    /\ ret = Ok([PARTNUM |-> 0, VERSION |-> 20])

C23_WitnessPartnum ==
    /\ SanityCheckEnded
    /\ bus[1].rx[2] = 128
    /\ bus[2].rx[2] = 20
    /\ ret.err = "AssertionError"

IDLE == 1

\* The MARCSTATE polls of the call so far, as positions on the bus.
PollsAt == {i \in 1..Len(bus) : IsMarcstateRead(bus[i])}

\* The state field, marcstate() & 0x1F, of the poll at position i.
StateField(i) == bus[i].rx[2] % 32

\* C24: sidle() polls until marcstate() & 0x1F equals IDLE, whatever the
\* upper three bits read: it strobes SIDLE first, strobes nothing between
\* that strobe and the poll that reads IDLE, makes no poll after the first
\* poll whose state field is IDLE, and returns only after such a poll.
C24_SidleExitsOnIdleField ==
    op = "sidle" =>
        /\ bus[1].tx = <<CCAddr["SIDLE"], 0>>
        /\ \A i \in PollsAt : StateField(i) = IDLE => \A j \in PollsAt : j <= i
        /\ \A i \in PollsAt : \A k \in 2..i : k \in PollsAt
        /\ pc = "done" => \E i \in PollsAt : StateField(i) = IDLE

\* What does hold: the loop is left at the first poll whose whole byte is
\* 0x01, and SFTX is strobed after it.
SidleExitsOnIdleByte ==
    op = "sidle" =>
        /\ bus[1].tx = <<CCAddr["SIDLE"], 0>>
        /\ \A i \in PollsAt : bus[i].rx[2] = 1 => \A j \in PollsAt : j <= i
        /\ \A i \in PollsAt : \A k \in 2..i : k \in PollsAt
        /\ pc = "done" =>
              /\ ret = Ok(RecvNone)
              /\ bus[Len(bus) - 1].rx[2] = 1 /\ Len(bus) - 1 \in PollsAt
              /\ bus[Len(bus)].tx = <<CCAddr["SFTX"], 0>>
              /\ regs = pre

\* A poll that reads 0x21, state field IDLE, is followed by another poll.
SidlePollsPastIdleField ==
    /\ op = "sidle"
    /\ Len(bus) >= 3
    /\ bus[2].rx[2] = 33
    /\ 3 \in PollsAt

SidleReturned == op = "sidle" /\ pc = "done"

TX_READY == 13

RXFIFO_OVERFLOW == 17

IsConfigRead(t, name) == t.tx = <<BitOr(READ_SINGLE_BYTE, CCAddr[name]), 0>>

\* C26: the wait for TX-ready in send_data: after the STX strobe, every
\* MARCSTATE poll that returns RXFIFO_OVERFLOW (0x11) is followed by an SFRX
\* strobe before the next poll, a poll that returns another state that is
\* not TX-ready is followed by the next poll with no strobe between, the
\* loop is left at the first poll that returns 0x0D (no poll follows it),
\* and PKTCTRL0 and PKTLEN are not read and the TX FIFO is not written
\* before that poll.
C26_TxReadyWait ==
    op = "send_data" =>
        /\ bus[1].tx = <<CCAddr["STX"], 0>>
        /\ 2 \in PollsAt
        /\ \A i \in PollsAt :
              /\ (StateField(i) = RXFIFO_OVERFLOW /\ i < Len(bus)) =>
                    /\ bus[i + 1].tx = <<CCAddr["SFRX"], 0>>
                    /\ i + 1 < Len(bus) => i + 2 \in PollsAt
              /\ (StateField(i) \notin {RXFIFO_OVERFLOW, TX_READY} /\ i < Len(bus)) =>
                    i + 1 \in PollsAt
              /\ StateField(i) = TX_READY => \A j \in PollsAt : j <= i
        /\ \A k \in 1..Len(bus) :
              (IsConfigRead(bus[k], "PKTCTRL0") \/ IsConfigRead(bus[k], "PKTLEN")
                 \/ k \in TxFifoWrites)
              => \E i \in PollsAt : i < k /\ StateField(i) = TX_READY

\* STX, a poll that reads 0x11, SFRX, a poll that reads 0x0D, then the read
\* of PKTCTRL0.
C26_Witness ==
    /\ op = "send_data"
    /\ pc = "done"
    /\ Len(bus) >= 5
    /\ bus[2].rx[2] = 17
    /\ bus[3].tx = <<CCAddr["SFRX"], 0>>
    /\ bus[4].rx[2] = 13
    /\ IsConfigRead(bus[5], "PKTCTRL0")

\* STX, a poll that reads IDLE, a poll that reads 0x2D, then the read of
\* PKTCTRL0.
C26_WitnessNoStrobe ==
    /\ op = "send_data"
    /\ pc = "done"
    /\ Len(bus) >= 4
    /\ bus[2].rx[2] = 1
    /\ bus[3].rx[2] = 45
    /\ IsConfigRead(bus[4], "PKTCTRL0")

(***************************************************************************)
(* The loops have no bound on their turns (SpecLive).                      *)
(***************************************************************************)
SendDataWaiting == op = "send_data" /\ pc = "tx_wait"

\* The latest MARCSTATE poll of send_data reported TX-ready.
ReadyReported == SendDataWaiting /\ marcstate % 32 = TX_READY

SendDataTerminated == op = "send_data" /\ pc = "done"

\* While the chip has not reported TX-ready, send_data is still in its wait:
\* it has not ended, has raised nothing, has written nothing to the TX FIFO,
\* and one more poll can be made.
WaitsWhileNotReady ==
    (op = "send_data" /\ args.bytes # <<>> /\ marcstate % 32 # TX_READY) =>
        /\ pc = "tx_wait"
        /\ ret = Pending
        /\ TxFifoWrites = {}
        /\ ENABLED (SendDataWait \/ SendDataWaitOn)

\* While no poll of sidle() has read IDLE, sidle() has not returned and one
\* more poll can be made.
SidleWaitsWhileNotIdle ==
    (op = "sidle" /\ \A i \in PollsAt : StateField(i) # IDLE) =>
        /\ pc = "sidle_wait"
        /\ ret = Pending
        /\ ENABLED (SidlePoll \/ SidlePollOn)

\* C25: the polling loops have no retry bound.  send_data with a payload
\* that is not empty ends (here, by raising) in every execution in which
\* the chip comes to report TX-ready, 0x0D; as long as the chip does not
\* report it, send_data stays in its wait, polling MARCSTATE, raises no
\* Timeout and writes nothing to the TX FIFO, for ever if the chip never
\* does; and sidle() does not return as long as the chip has not reported
\* IDLE, never if it never does.
C25_LoopsHaveNoRetryBound ==
    /\ ReadyReported ~> SendDataTerminated
    /\ []WaitsWhileNotReady
    /\ []SidleWaitsWhileNotIdle
    /\ [](ret.err # "Timeout")

\* send_data ended after polls beyond the transfers that are kept: the
\* window has moved past the STX strobe.
C25_Witness ==
    /\ SendDataTerminated
    /\ args.bytes # <<>>
    /\ ret.err = "NameError"
    /\ \A i \in 1..Len(bus) : bus[i].tx # <<CCAddr["STX"], 0>>

\* sidle() still polling after more polls than are kept.
C25_WitnessSidle ==
    /\ op = "sidle"
    /\ pc = "sidle_wait"
    /\ Len(bus) = MaxWaitBus
    /\ \A i \in 1..Len(bus) : i \in PollsAt /\ StateField(i) # IDLE

\* The address is one of the address table's.
TableAddress(a) == \E n \in DOMAIN CCAddr : CCAddr[n] = a

\* C27: every byte read_burst places on the bus is an 8-bit value: for an
\* address of the address table and a length from 0 up, each request byte
\* (addr + 8 * k) | READ_BURST is in 0..255.
C27_ReadBurstRequestBytesAreBytes ==
    (ReadBurstDone /\ TableAddress(AddrOf(args.name))) =>
        \A k \in 1..Len(bus[1].tx) : bus[1].tx[k] \in 0..255

\* read_burst('MARCSTATE', 2) places 0xF5, 0xFD and 0x1C5 = 453 on the bus.
ReadBurstRequestAbove255 ==
    /\ ReadBurstDone
    /\ args.name = StrRef("MARCSTATE")
    /\ args.length = 2
    /\ bus[1].tx = <<245, 253, 453>>

\* What does hold: the request bytes are bytes as long as addr + 8 * length
\* is at most 255.
ReadBurstRequestBytesWhileInRange ==
    (ReadBurstDone /\ TableAddress(AddrOf(args.name))
       /\ AddrOf(args.name) + 8 * args.length <= 255) =>
        \A k \in 1..Len(bus[1].tx) : bus[1].tx[k] \in 0..255

\* The transfers of the call that read the RX FIFO: the single read of the
\* length byte and the burst read.
RxFifoReads ==
    {i \in 1..Len(bus) : bus[i].tx[1] \in {READ_SINGLE_BYTE + CCAddr["RXFIFO"],
                                           READ_BURST + CCAddr["RXFIFO"]}}

\* After transfer i: an SFRX strobe, then a SIDLE strobe, then a MARCSTATE
\* poll that reads IDLE.
FlushedAndIdledAfter(i) ==
    \E f \in (i + 1)..Len(bus) :
        /\ bus[f].tx = <<CCAddr["SFRX"], 0>>
        /\ \E s \in (f + 1)..Len(bus) :
              /\ bus[s].tx = <<CCAddr["SIDLE"], 0>>
              /\ \E p \in (s + 1)..Len(bus) :
                    IsMarcstateRead(bus[p]) /\ StateField(p) = IDLE

\* C28: recv_data leaves no partly read RX FIFO behind: in every call that
\* reads the RX FIFO (the length byte of VARIABLE mode, or the burst read)
\* and returns, whatever it returns, the reads are followed by an SFRX
\* strobe and the chip is brought to IDLE before the return.
C28_RecvAlwaysFlushes ==
    (RecvDataEnded /\ ret.err = "none" /\ RxFifoReads # {}) =>
        \A i \in RxFifoReads : FlushedAndIdledAfter(i)

\* What does hold: a call that returns a list has flushed and idled, and a
\* call that returns False has read the length byte and made no transfer
\* after it.
RecvFlushesUnlessFalse ==
    (RecvDataEnded /\ ret.err = "none" /\ RxFifoReads # {}) =>
        IF ret.val = RecvFalse
        THEN RxFifoReads = {Len(bus)}
             /\ bus[Len(bus)].tx = <<READ_SINGLE_BYTE + CCAddr["RXFIFO"], 0>>
        ELSE \A i \in RxFifoReads : FlushedAndIdledAfter(i)

\* recv_data returned False after the read of the length byte, its last
\* transfer.
RecvFalseLeavesFifo ==
    /\ RecvReturned(RecvFalse)
    /\ RxFifoReads = {5}
    /\ Len(bus) = 5

SettableBandwidths == {58000, 100000, 232000, 325000, 540000, 812000}

\* The pair of the table for bandwidth v.
TablePair(v) ==
    LET b == Bandwidths[CHOOSE i \in 1..Len(Bandwidths) : Bandwidths[i][1] = v]
    IN  [e |-> b[2], m |-> b[3]]

RxBandwidthReturned ==
    op = "rx_bandwidth" /\ pc = "done" /\ args.value \in SettableBandwidths

\* CHANBW_E is bits 7..6 of MDMCFG4, CHANBW_M bits 5..4, DRATE_E bits 3..0.
ChanBwE(byte) == byte \div 64

ChanBwM(byte) == (byte \div 16) % 4

\* C29: RX-bandwidth set and get agree: for each of the six settable
\* bandwidths v, rx_bandwidth(v) writes the table's (CHANBW_E, CHANBW_M)
\* pair into MDMCFG4 and leaves DRATE_E as it was, the value it returns is
\* within 5% of v, and the six values have six different pairs.
C29_RxBandwidthSetGetAgree ==
    RxBandwidthReturned =>
        /\ ret.err = "none"
        /\ ChanBwE(regs[CCAddr["MDMCFG4"]]) = TablePair(args.value).e
        /\ ChanBwM(regs[CCAddr["MDMCFG4"]]) = TablePair(args.value).m
        /\ regs[CCAddr["MDMCFG4"]] % 16 = pre[CCAddr["MDMCFG4"]] % 16
        /\ Abs(ret.val - args.value) <= args.value \div 20
        /\ \A v1, v2 \in SettableBandwidths :
              TablePair(v1) = TablePair(v2) => v1 = v2

\* What does hold: the pair written, DRATE_E and every other register kept,
\* six different pairs, and the value returned, Fosc / 8 * (4 + M) * 2^E.
RxBandwidthWritesTablePair ==
    RxBandwidthReturned =>
        /\ ret.err = "none"
        /\ ChanBwE(regs[CCAddr["MDMCFG4"]]) = TablePair(args.value).e
        /\ ChanBwM(regs[CCAddr["MDMCFG4"]]) = TablePair(args.value).m
        /\ regs[CCAddr["MDMCFG4"]] % 16 = pre[CCAddr["MDMCFG4"]] % 16
        /\ \A x \in ConfigAddrs \ {CCAddr["MDMCFG4"]} : regs[x] = pre[x]
        /\ \A v1, v2 \in SettableBandwidths :
              TablePair(v1) = TablePair(v2) => v1 = v2
        /\ ret.val = (osc_freq \div 8) * (4 + TablePair(args.value).m)
                        * Pow2(TablePair(args.value).e)

\* The decode of the data sheet, Fosc / (8 * (4 + M) * 2^E), is within 5% of
\* each of the six values for the pair written.
RxBandwidthTableIsWithinFivePercent ==
    RxBandwidthReturned =>
        Abs(osc_freq \div (8 * (4 + TablePair(args.value).m) * Pow2(TablePair(args.value).e))
            - args.value) <= args.value \div 20

\* rx_bandwidth(58000) returns 182000000.
RxBandwidth58000Returns182MHz ==
    /\ RxBandwidthReturned
    /\ args.value = 58000
    /\ ret = Ok(182000000)

====
